---- MODULE Spec2Model ----
(***************************************************************************)
(* Model of the quote acquisition layer and of the gateway connection of   *)
(* src/st_jj_v1.py (class MyQuantClient), and of its signal engine (class  *)
(* SignalEngine).                                                          *)
(*                                                                         *)
(*   QuoteSpec : get_realtime_data / clear_cache over the quote cache and  *)
(*               the AKShare (primary) and MyQuant (fallback) providers.   *)
(*   ConnSpec  : connect(), its worker thread, test_api_call and the 4 s   *)
(*               timer, with time counted in seconds.                      *)
(*   GatewaySpec : ConnSpec with the gateway operations of MyQuantClient.  *)
(*   SignalSpec : SignalEngine.run_all_strategies on a family of inputs.   *)
(*   RaceSpec  : two threads in get_realtime_data on one client.           *)
(*   InitSpec  : InitializationThread.run, with its call of connect().     *)
(***************************************************************************)
EXTENDS Integers, Sequences, FiniteSets, TLC

VARIABLES
    AKSHARE_AVAILABLE,  \* module flag, set once at import
    MYQUANT_AVAILABLE,  \* module flag, set once at import
    connected,          \* MyQuantClient.connected
    data_cache,         \* MyQuantClient.data_cache : code -> quote
    cache_time,         \* MyQuantClient.cache_time : code -> fetch time
    now,                \* wall clock read by datetime.now(), in seconds
    grd,                \* per caller: the frame of its get_realtime_data call
    prev,               \* per caller: summary of its previous finished call
    ncalls,             \* number of get_realtime_data calls started
    conn,               \* the frame of connect(): main thread, worker, runner, timer
    gateway,            \* the last gateway operation called and what it did
    engine,             \* SignalEngine.results and the evaluation that produced it
    init_thread         \* InitializationThread: its run(), its worker, its flags

vars == <<AKSHARE_AVAILABLE, MYQUANT_AVAILABLE, connected, data_cache,
          cache_time, now, grd, prev, ncalls, conn, gateway, engine,
          init_thread>>

(***************************************************************************)
(* Bounds of the model.                                                    *)
(***************************************************************************)
MaxTime == 5        \* the clock runs from 0 to MaxTime
MaxBatch == 2       \* longest symbol list given to get_realtime_data (QuoteSpec)
MaxCalls == 2       \* get_realtime_data calls in one behaviour of QuoteSpec
MaxCacheCalls == 3  \* get_realtime_data calls in one behaviour of CacheSpec
MaxRaceCalls == 2    \* get_realtime_data calls in one behaviour of RaceSpec
MaxFetchTime == 1   \* seconds followed while one call is in a provider (CacheSpec)
MaxConnects == 2    \* connect() calls in one behaviour of ConnSpec
MaxEvals == 2       \* run_all_strategies calls in one behaviour of SignalSpec
MaxGatewayCalls == 1 \* gateway operations in one behaviour of GatewaySpec

(***************************************************************************)
(* Program constants.                                                      *)
(***************************************************************************)
cache_expiry == 5

\* the timeouts of connect(), in seconds
TokenTimeout == 1
AccountTimeout == 1
CanaryTimeout == 3
CashTimeout == 2
TimerDelay == 4
JoinTimeout == 5
\* SignalEngine.amplitude_threshold = 0.005 = AmplitudeNum / AmplitudeDen
\* the timeouts InitializationThread.run gives execute_with_timeout, seconds
PoolTimeout == 3
PositionsTimeout == 4
AccountInfoTimeout == 4
UpdatePoolTimeout == 3

AmplitudeNum == 5
AmplitudeDen == 1000

Callers == {1, 2}

(***************************************************************************)
(* Symbols are strings, modelled as sequences of characters.               *)
(***************************************************************************)
Digits == {"0", "1", "2", "3", "4", "5", "6", "7", "8", "9"}

Code600000 == <<"6", "0", "0", "0", "0", "0">>
Code000001 == <<"0", "0", "0", "0", "0", "1">>

\* The symbols callers pass: a Shanghai code, a Shenzhen code with a suffix,
\* and a malformed code (five digits).
Symbols == { Code600000,
             Code000001 \o <<".", "S", "Z">>,
             <<"8", "8", "0", "0", "1">> }

\* The codes a provider table can hold (column "代码").
Codes == {Code600000, Code000001}

Batches == UNION { [1..n -> Symbols] : n \in 0..MaxBatch }

\* symbol.split(".")[0]
CleanCode(symbol) ==
    LET dots == {i \in 1..Len(symbol) : symbol[i] = "."}
    IN  IF dots = {} THEN symbol
        ELSE SubSeq(symbol, 1, (CHOOSE i \in dots : \A j \in dots : i <= j) - 1)

\* len(clean_code) == 6 and clean_code.isdigit()
IsSixDigits(code) == Len(code) = 6 /\ \A i \in 1..6 : code[i] \in Digits

StartsWithAny(code, prefixes) == Len(code) >= 2 /\ <<code[1], code[2]>> \in prefixes

ShPrefixes == {<<"6", "0">>, <<"6", "8">>, <<"1", "1">>, <<"1", "2">>, <<"1", "3">>}
SzPrefixes == {<<"0", "0">>, <<"3", "0">>, <<"1", "2">>, <<"1", "5">>, <<"1", "6">>, <<"1", "8">>}

\* The exchange prefix of a clean code ("SHSE", "SZSE"), or "" when the
\* symbol is skipped (not six digits, or no known prefix).
GmExchange(code) ==
    IF ~IsSixDigits(code) THEN ""
    ELSE IF StartsWithAny(code, ShPrefixes) THEN "SHSE"
    ELSE IF StartsWithAny(code, SzPrefixes) THEN "SZSE"
    ELSE ""

(***************************************************************************)
(* Ordered dictionaries (Python dict): sequences of [key, val] records.    *)
(***************************************************************************)
DictKeys(d) == {d[i].key : i \in 1..Len(d)}

DictGet(d, k) == (CHOOSE i \in 1..Len(d) : d[i].key = k)

\* d[k] = v : overwrite in place, or append
DictPut(d, k, v) ==
    IF k \in DictKeys(d)
    THEN [i \in 1..Len(d) |-> IF d[i].key = k THEN [key |-> k, val |-> v] ELSE d[i]]
    ELSE Append(d, [key |-> k, val |-> v])

\* nearest integer of n / d (d > 0), halves away from zero towards +infinity
RoundDiv(n, d) == (2 * n + d) \div (2 * d)

EmptyMap == [k \in {} |-> 0]

(***************************************************************************)
(* Quotes.  Numbers with two decimals are counted in hundredths.           *)
(***************************************************************************)
AkRows == { [price |-> 10, change_pct |-> 0, turnover_rate |-> 100],
            [price |-> 11, change_pct |-> 1000, turnover_rate |-> 200] }

\* A cell of the AKShare snapshot table for one code: no row, a row whose
\* numbers do not parse, or a row.
AkCells == { [kind |-> "absent"], [kind |-> "bad"] }
           \cup { [kind |-> "row", row |-> r] : r \in AkRows }

\* What one AKShare fetch meets: stock_zh_a_spot_em answers ("em"), answers
\* with an empty table, raises and the backup stock_zh_a_spot_gs answers
\* ("gs") or is empty, both raise, or the call never returns.
AkKinds == {"em", "em_empty", "gs", "gs_empty", "raise", "hang"}

AkResponses ==
    { [kind |-> k, table |-> t] : k \in {"em", "gs"}, t \in [Codes -> AkCells] }
    \cup { [kind |-> k, table |-> [c \in Codes |-> [kind |-> "absent"]]]
           : k \in AkKinds \ {"em", "gs"} }

AkQuote(row) ==
    [price |-> row.price, change_pct |-> row.change_pct,
     turnover_rate |-> row.turnover_rate,
     source_type |-> "AKShare direct", source |-> ""]

\* (variant: the loop stops at the first symbol without a usable row)
RECURSIVE AkLoopStops(_, _, _, _)
AkLoopStops(symbols, table, i, result) ==
    IF i > Len(symbols) THEN result
    ELSE LET clean_code == CleanCode(symbols[i])
         IN  IF IsSixDigits(clean_code) /\ clean_code \in DOMAIN table
                /\ table[clean_code].kind = "row"
             THEN AkLoopStops(symbols, table, i + 1,
                              DictPut(result, clean_code, AkQuote(table[clean_code].row)))
             ELSE result

RECURSIVE AkLoop(_, _, _, _)
AkLoop(symbols, table, i, result) ==
    IF i > Len(symbols) THEN result
    ELSE LET clean_code == CleanCode(symbols[i])
         IN  IF ~IsSixDigits(clean_code)
             THEN AkLoop(symbols, table, i + 1, result)
             ELSE IF clean_code \in DOMAIN table /\ table[clean_code].kind = "row"
             THEN AkLoop(symbols, table, i + 1,
                         DictPut(result, clean_code, AkQuote(table[clean_code].row)))
             ELSE AkLoop(symbols, table, i + 1, result)

\* _get_realtime_data_from_akshare: the dict it returns (it never raises).
_get_realtime_data_from_akshare(symbols, resp) ==
    IF resp.kind \in {"em", "gs"} THEN AkLoop(symbols, resp.table, 1, <<>>) ELSE <<>>

(***************************************************************************)
(* The MyQuant fallback.                                                   *)
(***************************************************************************)
GmCodes == {c \in Codes : GmExchange(c) # ""}

\* How the previous close of one row is obtained: gm.history answers with a
\* close ("history"), is empty and gm.history_n gives at least two rows
\* ("history_n", close of the second last), is empty and history_n gives fewer
\* ("none"), one of the calls raises, or one of them never returns.
BaseOutcomes ==
    { [via |-> "history", close |-> 10], [via |-> "history_n", close |-> 20],
      [via |-> "none", close |-> 0], [via |-> "raise", close |-> 0],
      [via |-> "hang", close |-> 0] }

\* the fields of a row of gm.current that the code reads
MqRows == { [price |-> 11, cum_volume |-> 20000000] }

MqCells == { [kind |-> "absent"] }
           \cup { [kind |-> "row", price |-> r.price, cum_volume |-> r.cum_volume,
                   base |-> b] : r \in MqRows, b \in BaseOutcomes }

MqKinds == {"rows", "empty", "raise", "hang"}

\* What one fallback fetch meets: the outcome of gm.current(gm_symbols) and,
\* per requested symbol, the row it returns and how the previous close is found.
MqWorlds(gm_codes) ==
    { [current |-> "rows", rows |-> r] : r \in [gm_codes -> MqCells] }
    \cup { [current |-> k, rows |-> [c \in gm_codes |-> [kind |-> "absent"]]]
           : k \in MqKinds \ {"rows"} }

\* round((current_price - pre_close) / pre_close * 100, 2), in hundredths
ChangePct(current_price, base) ==
    IF base.via \in {"history", "history_n"} /\ base.close > 0 /\ current_price > 0
    THEN RoundDiv((current_price - base.close) * 10000, base.close)
    ELSE 0

\* round(volume / 10000000, 2), in hundredths: volume / 100000 to the nearest integer
TurnoverRate(volume) == IF volume > 0 THEN RoundDiv(volume, 100000) ELSE 0

MqQuote(cell) ==
    [price |-> cell.price, change_pct |-> ChangePct(cell.price, cell.base),
     turnover_rate |-> TurnoverRate(cell.cum_volume),
     source_type |-> "", source |-> ""]

\* gm_symbols: the clean codes of the symbols that map to an exchange, in order
RECURSIVE GmSymbols(_, _)
GmSymbols(symbols, i) ==
    IF i > Len(symbols) THEN <<>>
    ELSE LET clean_code == CleanCode(symbols[i])
         IN  IF GmExchange(clean_code) # ""
             THEN <<clean_code>> \o GmSymbols(symbols, i + 1)
             ELSE GmSymbols(symbols, i + 1)

\* the rows gm.current returns for gm_symbols: one per symbol the terminal knows
CurrentData(gm_symbols, world) ==
    SelectSeq(gm_symbols, LAMBDA c : world.rows[c].kind = "row")

RECURSIVE MqLoop(_, _, _, _)
MqLoop(current_data, world, i, result) ==
    IF i > Len(current_data) THEN [hung |-> FALSE, data |-> result]
    ELSE LET code == current_data[i]
             cell == world.rows[code]
         IN  IF cell.base.via = "hang" THEN [hung |-> TRUE, data |-> result]
             ELSE MqLoop(current_data, world, i + 1, DictPut(result, code, MqQuote(cell)))

\* _get_realtime_data_from_myquant: [called: gm.current was called, hung: an SDK
\* call never returned, data: the dict returned otherwise]
_get_realtime_data_from_myquant(symbols, world, is_conn) ==
    LET gm_symbols == GmSymbols(symbols, 1)
        nothing == [called |-> FALSE, hung |-> FALSE, data |-> <<>>]
    IN  IF ~is_conn \/ symbols = <<>> THEN nothing
        ELSE IF gm_symbols = <<>> THEN nothing
        ELSE IF world.current = "hang" THEN [called |-> TRUE, hung |-> TRUE, data |-> <<>>]
        ELSE IF world.current \in {"raise", "empty"}
             THEN [called |-> TRUE, hung |-> FALSE, data |-> <<>>]
        ELSE LET current_data == CurrentData(gm_symbols, world)
                 r == MqLoop(current_data, world, 1, <<>>)
             IN  IF current_data = <<>>
                 THEN [called |-> TRUE, hung |-> FALSE, data |-> <<>>]
                 ELSE [called |-> TRUE, hung |-> r.hung, data |-> r.data]

(***************************************************************************)
(* MyQuantClient.connect: the calling thread, the worker thread             *)
(* connect_worker, the runner test_api_call with its api_worker thread, and *)
(* the threading.Timer.  conn.t counts the seconds since connect() began.   *)
(***************************************************************************)
quoteVars == <<AKSHARE_AVAILABLE, data_cache, cache_time, now, grd, prev, ncalls>>

Probes == {"set_token", "set_account_id", "current", "get_cash"}

\* the timeout connect_worker gives test_api_call for each probe
ProbeTimeout(p) ==
    CASE p = "set_token" -> TokenTimeout
      [] p = "set_account_id" -> AccountTimeout
      [] p = "current" -> CanaryTimeout
      [] p = "get_cash" -> CashTimeout

\* what the SDK call of a probe can return
ApiValues(p) ==
    CASE p = "set_token" -> {"None"}
      [] p = "set_account_id" -> {"None"}
      [] p = "current" -> {"None", "empty", "rows"}
      [] p = "get_cash" -> {"None", "cash"}

NotRun == [how |-> "not_run", success |-> FALSE, value |-> "None", start |-> 0, end |-> 0]

ConnIdle ==
    [pc |-> "idle",                \* the thread in connect(): "idle" or "joining"
     ret |-> "none",               \* what the last connect() returned
     reason |-> "none",            \* the branch that returned
     n |-> 0,                      \* connect() calls so far
     t |-> 0,
     timer |-> "off",              \* "off", "armed", "fired", "cancelled"
     timeout_occurred |-> FALSE,
     connection_success |-> FALSE,
     deadline_first |-> FALSE,     \* history: the timer fired with connection_success unset
     was_connected |-> FALSE,      \* history: is_connected() when connect() returned
     wpc |-> "none",               \* the probe connect_worker is in, "none" or "done"
     api |-> "none",               \* api_worker: "none", "running", "returned", "raised"
     api_val |-> "None",           \* result[0]
     wait_start |-> 0,
     abandoned |-> {},             \* probes whose api_worker still runs after a timeout
     late |-> {},                  \* probes whose api_worker ended after its timeout
     log |-> [p \in Probes |-> NotRun]]   \* what test_api_call returned for each probe

\* (variant: the cash probe follows the canary whatever the canary returned)
WorkerAfterAlwaysCash(p, r) ==
    CASE p = "set_token" ->
           [wpc |-> IF r.success THEN "set_account_id" ELSE "done", set |-> FALSE]
      [] p = "set_account_id" ->
           [wpc |-> "current", set |-> FALSE]
      [] p = "current" ->
           [wpc |-> "get_cash", set |-> r.success /\ r.value = "rows"]
      [] p = "get_cash" ->
           [wpc |-> "done", set |-> r.success]

\* (variant: a failed attempt leaves self.connected as it was)
ConnectedAfterKeeps(success, was) == success \/ was

\* self.connected as the branches of lines 455-471 leave it
ConnectedAfter(success, was) == success

\* (variant: the Event of the last attempt counts as a connection)
IsConnectedByEvent == (connected \/ conn.connection_success) /\ MYQUANT_AVAILABLE

\* (variant: a wait that timed out is taken for a completed call)
TestApiCallResultNoTimeoutCheck(api, api_val) ==
    IF api = "raised" THEN [success |-> FALSE, value |-> "error"]
    ELSE [success |-> TRUE, value |-> IF api = "returned" THEN api_val ELSE "None"]

\* (variant: the error of the call is not looked at)
TestApiCallResultNoErrorCheck(api, api_val) ==
    IF api = "running" THEN [success |-> FALSE, value |-> "None"]
    ELSE [success |-> TRUE, value |-> IF api = "returned" THEN api_val ELSE "None"]

\* test_api_call after completed.wait(timeout): the pair it returns
TestApiCallResult(api, api_val) ==
    IF api = "running" THEN [success |-> FALSE, value |-> "None"]
    ELSE IF api = "raised" THEN [success |-> FALSE, value |-> "error"]
    ELSE [success |-> TRUE, value |-> api_val]

\* connect_worker after the probe p returned r: the next probe or "done", and
\* whether connection_success is set
WorkerAfter(p, r) ==
    CASE p = "set_token" ->
           [wpc |-> IF r.success THEN "set_account_id" ELSE "done", set |-> FALSE]
      [] p = "set_account_id" ->
           [wpc |-> "current", set |-> FALSE]
      [] p = "current" ->
           IF r.success /\ r.value = "rows"
           THEN [wpc |-> "done", set |-> TRUE]
           ELSE [wpc |-> "get_cash", set |-> FALSE]
      [] p = "get_cash" ->
           [wpc |-> "done", set |-> r.success]

\* test_api_call starts the api_worker thread of probe p and waits
StartProbe(k, p) ==
    IF p = "done" THEN [k EXCEPT !.wpc = "done", !.api = "none"]
    ELSE [k EXCEPT !.wpc = p, !.api = "running", !.api_val = "None", !.wait_start = k.t]

\* (variant: join() without a timeout)
JoinOverNoTimeout(k) == k.wpc = "done"

\* connect_thread.join(timeout=5.0) is over
JoinOver(k) == k.wpc = "done" \/ k.t >= JoinTimeout

\* the wait of test_api_call has timed out
WaitTimedOut(k) ==
    k.wpc \in Probes /\ k.api = "running" /\ k.t - k.wait_start >= ProbeTimeout(k.wpc)

\* connect() when the SDK is not available
ConnectUnavailable ==
    /\ conn.pc = "idle"
    /\ conn.n < MaxConnects
    /\ ~MYQUANT_AVAILABLE
    /\ conn' = [conn EXCEPT !.n = @ + 1, !.ret = "False", !.reason = "unavailable"]
    /\ UNCHANGED <<init_thread, gateway, engine, quoteVars, MYQUANT_AVAILABLE, connected>>

\* connect() up to connect_thread.join: the timer and the worker are started; a
\* worker of an earlier call that still runs is left behind
ConnectStart ==
    /\ conn.pc = "idle"
    /\ conn.n < MaxConnects
    /\ MYQUANT_AVAILABLE
    /\ conn' = StartProbe([ConnIdle EXCEPT !.pc = "joining", !.n = conn.n + 1,
                                           !.timer = "armed"], "set_token")
    /\ UNCHANGED <<init_thread, gateway, engine, quoteVars, MYQUANT_AVAILABLE, connected>>

\* the SDK call of the running api_worker returns or raises
ApiWorkerEnds ==
    /\ conn.wpc \in Probes
    /\ conn.api = "running"
    /\ \/ \E v \in ApiValues(conn.wpc) :
            conn' = [conn EXCEPT !.api = "returned", !.api_val = v]
       \/ conn' = [conn EXCEPT !.api = "raised"]
    /\ UNCHANGED <<init_thread, gateway, engine, quoteVars, MYQUANT_AVAILABLE, connected>>

\* test_api_call returns to connect_worker, which goes on
TestApiCallReturns ==
    /\ conn.wpc \in Probes
    /\ conn.api # "running" \/ WaitTimedOut(conn)
    /\ LET p == conn.wpc
           r == TestApiCallResult(conn.api, conn.api_val)
           next == WorkerAfter(p, r)
           entry == [how |-> IF conn.api = "running" THEN "timeout" ELSE conn.api,
                     success |-> r.success, value |-> r.value,
                     start |-> conn.wait_start, end |-> conn.t]
           k == [conn EXCEPT !.log[p] = entry,
                             !.abandoned = IF conn.api = "running" THEN @ \cup {p} ELSE @,
                             !.connection_success = @ \/ next.set]
       IN  conn' = StartProbe(k, next.wpc)
    /\ UNCHANGED <<init_thread, gateway, engine, quoteVars, MYQUANT_AVAILABLE, connected>>

\* an api_worker left behind by a timeout ends by itself
AbandonedApiEnds ==
    /\ \E p \in conn.abandoned :
         conn' = [conn EXCEPT !.abandoned = @ \ {p}, !.late = @ \cup {p}]
    /\ UNCHANGED <<init_thread, gateway, engine, quoteVars, MYQUANT_AVAILABLE, connected>>

\* the timer runs timeout_handler
TimerFires ==
    /\ conn.timer = "armed"
    /\ conn.t >= TimerDelay
    /\ conn' = [conn EXCEPT !.timer = "fired", !.timeout_occurred = TRUE,
                             !.deadline_first = ~conn.connection_success]
    /\ UNCHANGED <<init_thread, gateway, engine, quoteVars, MYQUANT_AVAILABLE, connected>>

\* connect() from the end of join to its return
ConnectReturns ==
    /\ conn.pc = "joining"
    /\ JoinOver(conn)
    /\ connected' = ConnectedAfter(conn.connection_success, connected)
    /\ LET k == [conn EXCEPT !.pc = "idle",
                             !.timer = IF @ = "armed" THEN "cancelled" ELSE @,
                             !.was_connected = connected /\ MYQUANT_AVAILABLE]
       IN  IF conn.connection_success
           THEN conn' = [k EXCEPT !.ret = "True", !.reason = "success"]
           ELSE IF conn.timeout_occurred
           THEN conn' = [k EXCEPT !.ret = "False", !.reason = "timeout"]
           ELSE conn' = [k EXCEPT !.ret = "False", !.reason = "failed"]
    /\ UNCHANGED <<init_thread, gateway, engine, quoteVars, MYQUANT_AVAILABLE>>

\* One second passes.  A thread whose wait is over runs before the clock
\* advances; the clock is followed while connect() or its worker is waiting.
ConnTick ==
    /\ conn.pc = "joining" \/ conn.wpc \in Probes
    /\ ~(conn.pc = "joining" /\ JoinOver(conn))
    /\ ~(conn.timer = "armed" /\ conn.t >= TimerDelay)
    /\ ~(conn.wpc \in Probes /\ (conn.api # "running" \/ WaitTimedOut(conn)))
    /\ conn' = [conn EXCEPT !.t = @ + 1]
    /\ UNCHANGED <<init_thread, gateway, engine, quoteVars, MYQUANT_AVAILABLE, connected>>

(***************************************************************************)
(* SignalEngine.                                                           *)
(***************************************************************************)
\* Prices and indicator values are integers; NaN stands for an undefined value
\* of a pandas series, and every comparison with it is false.
NaN == -1000000

Gt(x, y) == x # NaN /\ y # NaN /\ x > y
Lt(x, y) == x # NaN /\ y # NaN /\ x < y
Sub(x, y) == IF x = NaN \/ y = NaN THEN NaN ELSE x - y
Abs(x) == IF x < 0 THEN -x ELSE x
Last(series) == series[Len(series)]

\* series.dropna().values
DropNa(series) == SelectSeq(series, LAMBDA x : x # NaN)

\* label_map: the score of a signal, in tenths
Score(name) ==
    CASE name \in {"ma5_bottom_turn", "ma5_top_turn"} -> 6
      [] name \in {"ma10_bottom_turn", "ma10_top_turn"} -> 7
      [] name \in {"ma20_bottom_turn", "ma20_top_turn"} -> 8
      [] name \in {"ma60_bottom_turn", "ma60_top_turn"} -> 9
      [] name \in {"ma_multi_bull", "ma_multi_bear"} -> 10
      [] name \in {"macd_golden_cross", "macd_death_cross"} -> 8
      [] name \in {"rsi_oversold", "rsi_overbought"} -> 7

ma_periods == <<"5", "10", "20", "60">>
MaCol(period) == "MA" \o period
TurnName(period, direction) == "ma" \o period \o "_" \o direction \o "_turn"

\* np.gradient of three points, doubled so that it stays an integer:
\* np.gradient([a, b, c]) = [b - a, (c - a) / 2, c - b]
Gradient2(recent) ==
    <<2 * (recent[2] - recent[1]), recent[3] - recent[1], 2 * (recent[3] - recent[2])>>

\* amplitude <= self.amplitude_threshold, with
\* amplitude = abs((recent[-1] - recent[-2]) / recent[-2]) if recent[-2] != 0 else 0
AmplitudeTooSmall(recent) ==
    \/ recent[2] = 0
    \/ Abs(recent[3] - recent[2]) * AmplitudeDen <= AmplitudeNum * Abs(recent[2])

\* SignalEngine.detect_ma_turning_point
detect_ma_turning_point(ma_values, direction) ==
    IF Len(ma_values) < 3 THEN [is_signal |-> FALSE, idx |-> -1]
    ELSE LET recent == SubSeq(ma_values, Len(ma_values) - 2, Len(ma_values))
             grads == Gradient2(recent)
         IN  IF AmplitudeTooSmall(recent) THEN [is_signal |-> FALSE, idx |-> -1]
             ELSE IF direction = "bottom" /\ grads[2] < 0 /\ grads[3] > 0
             THEN [is_signal |-> TRUE, idx |-> Len(ma_values) - 1]
             ELSE IF direction = "top" /\ grads[2] > 0 /\ grads[3] < 0
             THEN [is_signal |-> TRUE, idx |-> Len(ma_values) - 1]
             ELSE [is_signal |-> FALSE, idx |-> -1]

\* SignalEngine.detect_ma_alignment
detect_ma_alignment(indicators) ==
    IF \/ {"MA5", "MA10", "MA20"} \ DOMAIN indicators # {}
       \/ Len(indicators["MA5"]) < 1
    THEN [is_signal |-> FALSE, name |-> "", idx |-> -1]
    ELSE LET ma5 == Last(indicators["MA5"])
             ma10 == Last(indicators["MA10"])
             ma20 == Last(indicators["MA20"])
         IN  IF Gt(ma5, ma10) /\ Gt(ma10, ma20)
             THEN [is_signal |-> TRUE, name |-> "ma_multi_bull",
                   idx |-> Len(indicators["MA5"]) - 1]
             ELSE IF Lt(ma5, ma10) /\ Lt(ma10, ma20)
             THEN [is_signal |-> TRUE, name |-> "ma_multi_bear",
                   idx |-> Len(indicators["MA5"]) - 1]
             ELSE [is_signal |-> FALSE, name |-> "", idx |-> -1]

\* the signals _detect_ma_signals appends for one period
MaPeriodSignals(indicators, main_trend_bull, main_trend_bear, symbol, period) ==
    IF MaCol(period) \notin DOMAIN indicators THEN <<>>
    ELSE LET ma_values == DropNa(indicators[MaCol(period)])
             Turn(direction) ==
                 LET r == detect_ma_turning_point(ma_values, direction)
                     name == TurnName(period, direction)
                 IN  IF r.is_signal THEN <<<<symbol, name, r.idx, Score(name)>>>>
                     ELSE <<>>
         IN  IF Len(ma_values) < 6 THEN <<>>
             ELSE (IF main_trend_bull THEN Turn("bottom") ELSE <<>>)
                  \o (IF main_trend_bear THEN Turn("top") ELSE <<>>)

RECURSIVE MaLoop(_, _, _, _, _)
MaLoop(indicators, main_trend_bull, main_trend_bear, symbol, i) ==
    IF i > Len(ma_periods) THEN <<>>
    ELSE MaPeriodSignals(indicators, main_trend_bull, main_trend_bear, symbol,
                         ma_periods[i])
         \o MaLoop(indicators, main_trend_bull, main_trend_bear, symbol, i + 1)

\* SignalEngine._detect_ma_signals: the signals it appends
_detect_ma_signals(indicators, main_trend_bull, main_trend_bear, symbol) ==
    MaLoop(indicators, main_trend_bull, main_trend_bear, symbol, 1)

\* (variant: the golden and the death cross are exchanged)
MacdCrossSwapped(prev_cross, current_cross) ==
    IF Gt(prev_cross, 0) /\ Lt(current_cross, 0) THEN "macd_golden_cross"
    ELSE IF Lt(prev_cross, 0) /\ Gt(current_cross, 0) THEN "macd_death_cross"
    ELSE ""

\* the cross test of _detect_macd_signals
MacdCross(prev_cross, current_cross) ==
    IF (Lt(prev_cross, 0) \/ prev_cross = 0) /\ Gt(current_cross, 0)
    THEN "macd_golden_cross"
    ELSE IF (Gt(prev_cross, 0) \/ prev_cross = 0) /\ Lt(current_cross, 0)
    THEN "macd_death_cross"
    ELSE ""

\* SignalEngine._detect_macd_signals: the signals it appends, or the IndexError
\* of signal.iloc[-1] / signal.iloc[-2] on a shorter MACD_Signal series
_detect_macd_signals(indicators, symbol) ==
    IF {"MACD", "MACD_Signal"} \ DOMAIN indicators # {}
    THEN [signals |-> <<>>, raised |-> FALSE]
    ELSE LET macd == indicators["MACD"]
             signal == indicators["MACD_Signal"]
         IN  IF Len(macd) < 3 THEN [signals |-> <<>>, raised |-> FALSE]
             ELSE IF Len(signal) < 2 THEN [signals |-> <<>>, raised |-> TRUE]
             ELSE LET current_cross == Sub(macd[Len(macd)], signal[Len(signal)])
                      prev_cross == Sub(macd[Len(macd) - 1], signal[Len(signal) - 1])
                      name == MacdCross(prev_cross, current_cross)
                  IN  [signals |-> IF name = "" THEN <<>>
                                   ELSE <<<<symbol, name, Len(macd) - 1, Score(name)>>>>,
                       raised |-> FALSE]

\* SignalEngine._detect_rsi_signals: the signals it appends
_detect_rsi_signals(indicators, symbol) ==
    IF "RSI" \notin DOMAIN indicators THEN <<>>
    ELSE LET rsi == indicators["RSI"]
         IN  IF Len(rsi) < 3 THEN <<>>
             ELSE IF Gt(Last(rsi), 70)
             THEN <<<<symbol, "rsi_overbought", Len(rsi) - 1, Score("rsi_overbought")>>>>
             ELSE IF Lt(Last(rsi), 30)
             THEN <<<<symbol, "rsi_oversold", Len(rsi) - 1, Score("rsi_oversold")>>>>
             ELSE <<>>

\* (variant: the trend gate of the bottom turn is always open)
MainTrendBullUngated(data, indicators) == TRUE

\* main_trend_bull = close.iloc[-1] > ma60.iloc[-1] if ma60 is not None else False
main_trend_bull(data, indicators) ==
    "MA60" \in DOMAIN indicators /\ Gt(Last(data.Close), Last(indicators["MA60"]))

main_trend_bear(data, indicators) ==
    "MA60" \in DOMAIN indicators /\ Lt(Last(data.Close), Last(indicators["MA60"]))

\* (variant: the result list is not cleared)
ClearResultsKeeps(results) == results

\* self.results.clear()
ClearResults(results) == <<>>

\* SignalEngine.run_all_strategies on an engine whose result list is results:
\* the result list afterwards, and whether an IndexError left the call
run_all_strategies(results, data, indicators, symbol) ==
    LET cleared == ClearResults(results)
    IN  IF ~data.has_close THEN [results |-> cleared, raised |-> FALSE]
        ELSE IF /\ "MA60" \in DOMAIN indicators
                /\ (Len(data.Close) = 0 \/ Len(indicators["MA60"]) = 0)
        THEN [results |-> cleared, raised |-> TRUE]
        ELSE LET bull == main_trend_bull(data, indicators)
                 bear == main_trend_bear(data, indicators)
                 ma == _detect_ma_signals(indicators, bull, bear, symbol)
                 macd == _detect_macd_signals(indicators, symbol)
             IN  IF macd.raised
                 THEN [results |-> cleared \o ma, raised |-> TRUE]
                 ELSE [results |-> cleared \o ma \o macd.signals
                                   \o _detect_rsi_signals(indicators, symbol),
                       raised |-> FALSE]

NoData == [has_close |-> FALSE, Close |-> <<>>]

EngineIdle ==
    [results |-> <<>>,       \* SignalEngine.results
     raised |-> FALSE,       \* the last run_all_strategies raised
     evals |-> 0,            \* run_all_strategies calls so far
     had_signals |-> FALSE,  \* history: results was not empty when the last call began
     data |-> NoData,        \* the arguments of the last call
     indicators |-> EmptyMap,
     symbol |-> ""]

\* The arguments given to run_all_strategies.  An indicator is missing or is a
\* series; Missing and Some wrap the two cases.
Missing == <<>>
Some(series) == <<series>>

IndicatorKeys == {"MA5", "MA10", "MA20", "MA60", "MACD", "MACD_Signal", "RSI"}

\* the indicators dict holding the keys whose option is a series
MkIndicators(opt) ==
    [k \in {x \in IndicatorKeys : opt[x] # Missing} |-> opt[k][1]]

\* a moving-average series: one undefined warm-up value, three values, and the
\* last three values tail
MaSeries(tail) == <<NaN, 1000, 1000, 1000>> \o tail

BottomTail == <<1020, 1000, 1010>>     \* falls, then rises by 1 %
TopTail == <<1000, 1020, 1010>>        \* rises, then falls by about 1 %
MaTails ==
    {BottomTail, TopTail,
     <<1000, 990, 1010>>,              \* falls, then rises above where it began
     <<1020, 1000, 1004>>,             \* last step 0.4 %
     <<1020, 1000, 1005>>,             \* last step 0.5 %
     <<1020, 1000, 1006>>,             \* last step 0.6 %
     <<1020, 0, 1010>>}                \* previous value 0

ShortMa == <<NaN, 1000, 1000>> \o BottomTail            \* five defined values
AllNaN == <<NaN, NaN, NaN, NaN, NaN, NaN>>

Ma5Options ==
    {Missing, Some(<<>>), Some(ShortMa), Some(AllNaN)} \cup {Some(MaSeries(t)) : t \in MaTails}

Ma60Options ==
    {Missing, Some(<<>>), Some(AllNaN), Some(MaSeries(BottomTail)), Some(MaSeries(TopTail))}

\* MA10 and MA20 together
Ma1020Options ==
    {<<Missing, Missing>>,
     <<Some(MaSeries(<<1020, 1000, 1006>>)), Some(MaSeries(<<1020, 1000, 1005>>))>>}

\* MACD and MACD_Signal together, in tenths
GoldenCross3 == <<Some(<<0, 9, 11>>), Some(<<0, 10, 10>>)>>
MacdOptions ==
    {<<Missing, Missing>>,
     <<Some(<<0, 9, 11>>), Missing>>,
     <<Some(<<9, 11>>), Some(<<10, 10>>)>>,           \* two bars, -0.1 to +0.1
     <<Some(<<11, 9>>), Some(<<10, 10>>)>>,           \* two bars, +0.1 to -0.1
     GoldenCross3,                                    \* three bars, -0.1 to +0.1
     <<Some(<<0, 11, 9>>), Some(<<0, 10, 10>>)>>,     \* three bars, +0.1 to -0.1
     <<Some(<<0, 11, 11>>), Some(<<0, 10, 10>>)>>,    \* no cross
     <<Some(<<NaN, NaN, NaN>>), Some(<<NaN, NaN, NaN>>)>>,
     <<Some(<<0, 9, 11>>), Some(<<10>>)>>}            \* MACD_Signal of one bar

Overbought == Some(<<50, 50, 80>>)
RsiOptions ==
    {Missing, Some(<<20>>), Overbought, Some(<<NaN, NaN, NaN>>)}

\* seven bars, as many as a moving-average series has rows
BullData == [has_close |-> TRUE, Close |-> <<1000, 1000, 1000, 1000, 1000, 1000, 1100>>]
BearData == [has_close |-> TRUE, Close |-> <<1000, 1000, 1000, 1000, 1000, 1000, 900>>]
DataOptions == {[has_close |-> TRUE, Close |-> <<>>], BullData, BearData}

MkInput(data, ma5, ma1020, ma60, macd, rsi, symbol) ==
    [data |-> data,
     indicators |-> MkIndicators([k \in IndicatorKeys |->
                       CASE k = "MA5" -> ma5
                         [] k = "MA10" -> ma1020[1]
                         [] k = "MA20" -> ma1020[2]
                         [] k = "MA60" -> ma60
                         [] k = "MACD" -> macd[1]
                         [] k = "MACD_Signal" -> macd[2]
                         [] k = "RSI" -> rsi]),
     symbol |-> symbol]

\* evaluations that vary the moving averages and the trend
MaInputs ==
    {MkInput(d, ma5, ma1020, ma60, GoldenCross3, Overbought, "A") :
        d \in DataOptions, ma5 \in Ma5Options, ma1020 \in Ma1020Options,
        ma60 \in Ma60Options}

\* evaluations that vary MACD and RSI
OscillatorInputs ==
    {MkInput(d, Some(MaSeries(BottomTail)), <<Missing, Missing>>, ma60, macd, rsi, sym) :
        d \in {NoData, BullData}, ma60 \in {Missing},
        macd \in MacdOptions, rsi \in RsiOptions, sym \in {"A", "B"}}

SignalInputs == MaInputs \cup OscillatorInputs

\* one call of run_all_strategies on the engine
Evaluate ==
    /\ engine.evals < MaxEvals
    /\ \E inp \in SignalInputs :
         LET r == run_all_strategies(engine.results, inp.data, inp.indicators, inp.symbol)
         IN  engine' = [results |-> r.results, raised |-> r.raised,
                        evals |-> engine.evals + 1, had_signals |-> engine.results # <<>>,
                        data |-> inp.data, indicators |-> inp.indicators,
                        symbol |-> inp.symbol]
    /\ UNCHANGED <<init_thread, gateway, quoteVars, MYQUANT_AVAILABLE, connected, conn>>

(***************************************************************************)
(* The gateway operations of MyQuantClient: each one returns its failure   *)
(* value at once unless is_connected(), and otherwise calls the SDK inside *)
(* a try block.                                                            *)
(***************************************************************************)
GatewayOps ==
    {"get_positions", "get_account_info", "get_historical_data", "place_order",
     "cancel_order", "get_orders", "get_unfinished_orders",
     "_get_realtime_data_from_myquant"}

\* what the SDK call of an operation does
SdkOutcomes == {"value", "empty", "raises", "hangs"}

\* the value an operation returns when it is not connected
FailureValue(op) ==
    CASE op \in {"get_positions", "get_orders", "get_unfinished_orders"} -> "[]"
      [] op \in {"get_account_info", "_get_realtime_data_from_myquant"} -> "{}"
      [] op = "get_historical_data" -> "DataFrame()"
      [] op \in {"place_order", "cancel_order"} -> "success: False"

\* the value an operation returns when its SDK call returned nothing or raised
ErrorValue(op, outcome) ==
    CASE op = "get_account_info" -> "config_account"
      [] op = "cancel_order" /\ outcome = "empty" -> "success: True"
      [] OTHER -> FailureValue(op)

GatewayIdle == [op |-> "none", ret |-> "none", sdk_called |-> FALSE, raised |-> FALSE, n |-> 0]

\* (variant: the operation does not look at is_connected())
GatewayReturnUnguarded(op, is_conn, outcome) ==
    CASE outcome = "value" -> [ret |-> "value", sdk_called |-> TRUE, raised |-> FALSE]
      [] outcome = "hangs" -> [ret |-> "blocked", sdk_called |-> TRUE, raised |-> FALSE]
      [] OTHER -> [ret |-> ErrorValue(op, outcome), sdk_called |-> TRUE, raised |-> FALSE]

\* one gateway operation: what it returns, whether it called the SDK, and
\* whether an exception left it
GatewayReturn(op, is_conn, outcome) ==
    IF ~is_conn
    THEN [ret |-> FailureValue(op), sdk_called |-> FALSE, raised |-> FALSE]
    ELSE CASE outcome = "value" -> [ret |-> "value", sdk_called |-> TRUE, raised |-> FALSE]
           [] outcome = "hangs" -> [ret |-> "blocked", sdk_called |-> TRUE, raised |-> FALSE]
           [] OTHER -> [ret |-> ErrorValue(op, outcome), sdk_called |-> TRUE, raised |-> FALSE]

(***************************************************************************)
(* MyQuantClient.get_realtime_data, one frame per calling thread.          *)
(***************************************************************************)
IdleFrame ==
    [pc |-> "idle", symbols |-> <<>>, force_refresh |-> FALSE, current_time |-> 0,
     result |-> EmptyMap, need_fetch |-> <<>>, fetched_data |-> <<>>,
     akshare_success |-> FALSE, i |-> 1,
     \* what the call did, kept for the properties
     hits |-> {}, ak_batches |-> <<>>, mq_batches |-> <<>>, gm_called |-> FALSE,
     ak_returned |-> {}, resolved |-> {}, caught |-> {},
     raised |-> FALSE, returned |-> FALSE, cleared |-> FALSE]

NoPrev ==
    [valid |-> FALSE, symbols |-> <<>>, force_refresh |-> FALSE, current_time |-> 0,
     result |-> EmptyMap, stored |-> {}, cleared |-> FALSE]

\* MyQuantClient.is_connected
is_connected == connected /\ MYQUANT_AVAILABLE

CleanCodes(symbols) == {CleanCode(symbols[i]) : i \in 1..Len(symbols)}

\* (variant: an entry whose age equals cache_expiry is still fresh)
CacheFreshInclusive(clean_code, t) ==
    /\ clean_code \in DOMAIN data_cache
    /\ clean_code \in DOMAIN cache_time
    /\ t - cache_time[clean_code] <= cache_expiry

\* (variant: the entry expires one second early)
CacheFreshShort(clean_code, t) ==
    /\ clean_code \in DOMAIN data_cache
    /\ clean_code \in DOMAIN cache_time
    /\ t - cache_time[clean_code] < cache_expiry - 1

\* the freshness test of one code at time t
CacheFresh(clean_code, t) ==
    /\ clean_code \in DOMAIN data_cache
    /\ clean_code \in DOMAIN cache_time
    /\ t - cache_time[clean_code] < cache_expiry

\* (variant: force_refresh is not consulted)
UseCacheAlways(symbol, force_refresh, t) == CacheFresh(CleanCode(symbol), t)

\* the symbol is answered from the cache
UseCache(symbol, force_refresh, t) == ~force_refresh /\ CacheFresh(CleanCode(symbol), t)

\* the list need_fetch built by the loop over symbols
NeedFetch(symbols, force_refresh, t) ==
    SelectSeq(symbols, LAMBDA s : ~UseCache(s, force_refresh, t))

\* the entries the loop puts in result
CacheHits(symbols, force_refresh, t) ==
    {CleanCode(symbols[i]) : i \in {j \in 1..Len(symbols) : UseCache(symbols[j], force_refresh, t)}}

\* (variant: an exception of the snapshot call is not caught)
PrimaryFetchUncaught(need_fetch, resp) ==
    LET d == _get_realtime_data_from_akshare(need_fetch, resp)
    IN  [raised |-> resp.kind = "raise", fetched_data |-> d, akshare_success |-> d # <<>>]

\* the primary fetch inside its try block
PrimaryFetch(need_fetch, resp) ==
    LET d == _get_realtime_data_from_akshare(need_fetch, resp)
    IN  [raised |-> FALSE, fetched_data |-> d, akshare_success |-> d # <<>>]

\* the fallback fetch inside its try block
FallbackFetch(need_fetch, world, is_conn) ==
    LET r == _get_realtime_data_from_myquant(need_fetch, world, is_conn)
    IN  [raised |-> FALSE, called |-> r.called, hung |-> r.hung, fetched_data |-> r.data]

\* the codes for which a provider answer holds a usable row
AkUsable(resp) ==
    {k \in Codes : resp.kind \in {"em", "gs"} /\ resp.table[k].kind = "row"}

MqUsable(world) ==
    {k \in DOMAIN world.rows : world.current = "rows" /\ world.rows[k].kind = "row"}

\* the providers whose fetch ended by an exception: both snapshot calls raised,
\* gm.current raised
AkErrors(resp) == IF resp.kind = "raise" THEN {"AKShare"} ELSE {}

MqErrors(world) == IF world.current = "raise" THEN {"MyQuant"} ELSE {}

\* return result
Return(f) == [f EXCEPT !.pc = "idle", !.returned = TRUE]

\* the start of the store loop, or the return when nothing was fetched
ToStore(f) ==
    IF f.fetched_data = <<>> THEN Return(f)
    ELSE [f EXCEPT !.pc = "store_data", !.i = 1]

\* (variant: the fallback is tried whether or not the gateway is connected)
WantFallbackAnyway(f) == ~f.akshare_success /\ f.fetched_data = <<>>

\* the test that guards the fallback
WantFallback(f) == ~f.akshare_success /\ f.fetched_data = <<>> /\ is_connected

AfterPrimary(f) ==
    IF WantFallback(f) THEN [f EXCEPT !.pc = "fallback"] ELSE ToStore(f)

Summary(f) ==
    [valid |-> TRUE, symbols |-> f.symbols, force_refresh |-> f.force_refresh,
     current_time |-> f.current_time, result |-> f.result,
     stored |-> DictKeys(f.fetched_data), cleared |-> f.cleared]

\* the call up to the first provider fetch: the cache partition
get_realtime_data(c, symbols, force_refresh) ==
    /\ grd[c].pc = "idle"
    /\ ncalls' = ncalls + 1
    /\ prev' = [prev EXCEPT ![c] = IF grd[c].returned /\ Len(grd[c].symbols) = 1
                                    THEN Summary(grd[c]) ELSE NoPrev]
    /\ LET hits == CacheHits(symbols, force_refresh, now)
           f == [IdleFrame EXCEPT
                   !.symbols = symbols,
                   !.force_refresh = force_refresh,
                   !.current_time = now,
                   !.need_fetch = IF symbols = <<>> THEN <<>>
                                  ELSE NeedFetch(symbols, force_refresh, now),
                   !.hits = IF symbols = <<>> THEN {} ELSE hits,
                   !.result = IF symbols = <<>> THEN EmptyMap
                              ELSE [k \in hits |-> data_cache[k]]]
       IN  grd' = [grd EXCEPT ![c] =
                     IF f.need_fetch = <<>> THEN Return(f)
                     ELSE IF AKSHARE_AVAILABLE THEN [f EXCEPT !.pc = "primary"]
                     ELSE AfterPrimary(f)]
    /\ UNCHANGED <<init_thread, gateway, engine, AKSHARE_AVAILABLE, MYQUANT_AVAILABLE, connected, data_cache,
                   cache_time, now, conn>>

\* (variant: a provider is given one symbol of the batch)
ProviderBatchOneSymbol(f) == SubSeq(f.need_fetch, 1, 1)

\* the argument given to a provider fetch: the list need_fetch
ProviderBatch(f) == f.need_fetch

\* the AKShare fetch of the batch need_fetch
GRD_Primary(c) ==
    /\ grd[c].pc = "primary"
    /\ \E resp \in AkResponses :
         LET f == grd[c]
             r == PrimaryFetch(ProviderBatch(f), resp)
             g == [f EXCEPT !.ak_batches = Append(@, ProviderBatch(f))]
         IN  grd' = [grd EXCEPT ![c] =
                       IF resp.kind = "hang" THEN [g EXCEPT !.pc = "blocked"]
                       ELSE IF r.raised THEN [g EXCEPT !.pc = "idle", !.raised = TRUE]
                       ELSE AfterPrimary(
                              [g EXCEPT !.fetched_data = r.fetched_data,
                                        !.akshare_success = r.akshare_success,
                                        !.ak_returned = DictKeys(r.fetched_data),
                                        !.caught = AkErrors(resp),
                                        !.resolved = CleanCodes(f.need_fetch) \cap AkUsable(resp)])]
    /\ UNCHANGED <<init_thread, gateway, engine, AKSHARE_AVAILABLE, MYQUANT_AVAILABLE, connected, data_cache,
                   cache_time, now, prev, ncalls, conn>>

\* the MyQuant fetch of the batch need_fetch
GRD_Fallback(c) ==
    /\ grd[c].pc = "fallback"
    /\ \E world \in MqWorlds(CleanCodes(grd[c].need_fetch) \cap GmCodes) :
         LET f == grd[c]
             r == FallbackFetch(ProviderBatch(f), world, is_connected)
             g == [f EXCEPT !.mq_batches = Append(@, ProviderBatch(f)),
                            !.gm_called = r.called]
         IN  grd' = [grd EXCEPT ![c] =
                       IF r.hung THEN [g EXCEPT !.pc = "blocked"]
                       ELSE IF r.raised THEN [g EXCEPT !.pc = "idle", !.raised = TRUE]
                       ELSE ToStore(
                              [g EXCEPT !.fetched_data = r.fetched_data,
                                        !.caught = @ \cup (IF r.called THEN MqErrors(world) ELSE {}),
                                        !.resolved = CleanCodes(f.need_fetch) \cap MqUsable(world)])]
    /\ UNCHANGED <<init_thread, gateway, engine, AKSHARE_AVAILABLE, MYQUANT_AVAILABLE, connected, data_cache,
                   cache_time, now, prev, ncalls, conn>>

\* (variant: the assignment leaves the one entry in the dict)
SetItemAlone(d, code, v) == [k \in {code} |-> v]

\* d[code] = v on a dict of the cache
SetItem(d, code, v) == [k \in DOMAIN d \cup {code} |-> IF k = code THEN v ELSE d[k]]

\* the fetch time given to an entry written at time t: current_time, read at
\* the start of the call
FetchTime(f, t) == f.current_time

\* the data of entry i with its source tag
Tagged(f) ==
    [f.fetched_data[f.i].val EXCEPT
       !.source = IF f.akshare_success THEN "AKShare" ELSE "MyQuant"]

\* store loop, entry i: data["数据源"] = ...; self.data_cache[code] = data
GRD_StoreData(c) ==
    /\ grd[c].pc = "store_data"
    /\ LET f == grd[c]
           code == f.fetched_data[f.i].key
       IN  /\ data_cache' = SetItem(data_cache, code, Tagged(f))
           /\ grd' = [grd EXCEPT ![c] =
                        [f EXCEPT !.pc = "store_time",
                                  !.fetched_data[f.i].val = Tagged(f)]]
    /\ UNCHANGED <<init_thread, gateway, engine, AKSHARE_AVAILABLE, MYQUANT_AVAILABLE, connected, cache_time,
                   now, prev, ncalls, conn>>

\* store loop, entry i: self.cache_time[code] = current_time; result[code] = data;
\* after the last entry the call returns
GRD_StoreTime(c) ==
    /\ grd[c].pc = "store_time"
    /\ LET f == grd[c]
           code == f.fetched_data[f.i].key
           data == f.fetched_data[f.i].val
           g == [f EXCEPT !.result = [k \in DOMAIN f.result \cup {code} |->
                                        IF k = code THEN data ELSE f.result[k]],
                          !.i = f.i + 1]
       IN  /\ cache_time' = SetItem(cache_time, code, FetchTime(f, now))
           /\ grd' = [grd EXCEPT ![c] =
                        IF f.i = Len(f.fetched_data) THEN Return(g)
                        ELSE [g EXCEPT !.pc = "store_data"]]
    /\ UNCHANGED <<init_thread, gateway, engine, AKSHARE_AVAILABLE, MYQUANT_AVAILABLE, connected, data_cache,
                   now, prev, ncalls, conn>>

\* MyQuantClient.clear_cache, called by a thread that is in no other call
clear_cache(c) ==
    /\ grd[c].pc = "idle"
    /\ data_cache' = EmptyMap
    /\ cache_time' = EmptyMap
    /\ grd' = [d \in Callers |->
                 IF grd[d].returned THEN [grd[d] EXCEPT !.cleared = TRUE] ELSE grd[d]]
    /\ UNCHANGED <<init_thread, gateway, engine, AKSHARE_AVAILABLE, MYQUANT_AVAILABLE, connected, now, prev,
                   ncalls, conn>>

\* d seconds pass
Tick(d) ==
    /\ now + d <= MaxTime
    /\ now' = now + d
    /\ UNCHANGED <<init_thread, gateway, engine, AKSHARE_AVAILABLE, MYQUANT_AVAILABLE, connected, data_cache,
                   cache_time, grd, prev, ncalls, conn>>

(***************************************************************************)
(* InitializationThread.run.  The steps that call execute_with_timeout     *)
(* start a worker thread and poll it; connect() is called directly and is  *)
(* the connect() modelled above.  Status messages are named in English:    *)
(* "completed" is the message of line 5828, "error" that of line 5841.     *)
(***************************************************************************)
Steps == {"load_pool", "get_positions", "get_account_info", "update_pool"}

StepTimeout(step) ==
    CASE step = "load_pool" -> PoolTimeout
      [] step = "get_positions" -> PositionsTimeout
      [] step = "get_account_info" -> AccountInfoTimeout
      [] step = "update_pool" -> UpdatePoolTimeout

InitThreadIdle ==
    [pc |-> "idle",
     worker |-> "none",             \* the thread of execute_with_timeout:
                                    \* "none", "running", "returned", "raised"
     result |-> <<>>,               \* result[0] of a worker that returns a list
     waited |-> 0,                  \* seconds since wait_start
     stop_requested |-> FALSE,
     initialization_completed |-> FALSE,
     returned |-> FALSE,            \* run() has returned
     client_running |-> FALSE,
     connected |-> FALSE,
     positions |-> <<>>,
     stocks |-> {},                 \* the keys of stock_pool.stocks
     progress |-> 0,                \* the last initialization_progress emitted
     status |-> "none",             \* the last status_message emitted
     statuses |-> {},               \* every status_message emitted
     gateway_hung |-> FALSE]        \* history: the wait for a gateway call timed out

\* what the gateway call of a step can return
StepResults(step) ==
    IF step = "get_positions" THEN {<<>>, <<Code000001>>} ELSE {<<>>}

\* stock_pool.stocks after add_position_stocks(positions)
add_position_stocks(stocks, positions) ==
    stocks \cup {positions[i] : i \in 1..Len(positions)}

\* the while loop of execute_with_timeout is over
ExecWaitOver(k) ==
    k.worker # "running" \/ k.waited >= StepTimeout(k.pc) \/ k.stop_requested

\* what execute_with_timeout returns
ExecResult(k) ==
    IF k.worker = "running" THEN [success |-> FALSE, how |-> "timeout"]
    ELSE IF k.stop_requested THEN [success |-> FALSE, how |-> "aborted"]
    ELSE IF k.worker = "raised" THEN [success |-> FALSE, how |-> "failed"]
    ELSE [success |-> TRUE, how |-> "returned"]

\* execute_with_timeout starts the worker of a step
StartWorker(k, step) ==
    [k EXCEPT !.pc = step, !.worker = "running", !.result = <<>>, !.waited = 0]

Emit(k, progress) == [k EXCEPT !.progress = progress]

EmitStatus(k, status) ==
    [k EXCEPT !.status = status, !.statuses = @ \cup {status}]

\* run() returns with initialization_completed = completed
RunReturns(k, completed) ==
    [k EXCEPT !.pc = "done", !.returned = TRUE, !.worker = "none", !.waited = 0,
              !.initialization_completed = completed]

\* (variant: the except branch does not mark the initialization as completed)
RunFailsUncompleted(k) == RunReturns(EmitStatus(k, "error"), FALSE)

\* the except branch of run()
RunFails(k) == RunReturns(EmitStatus(k, "error"), TRUE)

\* stock_pool.stocks[0]: the keys of the dict are the code strings, never 0
FirstStockRaises(stocks) == stocks # {}

initVars == <<gateway, engine, quoteVars, MYQUANT_AVAILABLE, connected, conn>>

\* run() up to the first wait: progress 5, load_pool in a worker
InitRun ==
    /\ init_thread.pc = "idle"
    /\ init_thread' = StartWorker(Emit(init_thread, 5), "load_pool")
    /\ UNCHANGED initVars

\* the worker of a step ends: its call returns
WorkerEnds ==
    /\ init_thread.pc \in Steps
    /\ init_thread.worker = "running"
    /\ \E r \in StepResults(init_thread.pc) :
         init_thread' =
             [init_thread EXCEPT
                !.worker = "returned",
                !.result = r,
                !.stocks = IF init_thread.pc = "update_pool"
                           THEN add_position_stocks(@, init_thread.positions)
                           ELSE @]
    /\ UNCHANGED initVars

\* one second of the polling loop of execute_with_timeout
ExecTick ==
    /\ init_thread.pc \in Steps
    /\ ~ExecWaitOver(init_thread)
    /\ init_thread' = [init_thread EXCEPT !.waited = @ + 1]
    /\ UNCHANGED initVars

\* execute_with_timeout returns and run() goes on to its next step
ExecReturns ==
    /\ init_thread.pc \in Steps
    /\ ExecWaitOver(init_thread)
    /\ LET step == init_thread.pc
           r == ExecResult(init_thread)
           k == [init_thread EXCEPT
                   !.worker = "none", !.waited = 0,
                   !.gateway_hung =
                       @ \/ (r.how = "timeout"
                             /\ step \in {"get_positions", "get_account_info"})]
       IN  init_thread' =
             CASE step = "load_pool" ->
                    [Emit(k, 20) EXCEPT !.pc = "check_client"]
               [] step = "get_positions" ->
                    [Emit(k, 50) EXCEPT
                       !.pc = "after_positions",
                       !.positions = IF r.success THEN k.result ELSE <<>>]
               [] step = "get_account_info" ->
                    [(IF r.success THEN Emit(k, 70) ELSE k) EXCEPT !.pc = "update_check"]
               [] step = "update_pool" ->
                    [(IF ~k.stop_requested THEN Emit(k, 90) ELSE k) EXCEPT !.pc = "history"]
    /\ UNCHANGED initVars

\* is_goldminer_running and the branch that pauses the initialization
CheckClient ==
    /\ init_thread.pc = "check_client"
    /\ \E running \in BOOLEAN :
         init_thread' =
             IF running
             THEN [EmitStatus(init_thread, "client_running") EXCEPT
                     !.pc = "connect", !.client_running = TRUE]
             ELSE RunReturns(Emit(EmitStatus(init_thread, "client_not_running"), 0), FALSE)
    /\ UNCHANGED initVars

\* run() calls self.myquant_client.connect()
InitConnect ==
    /\ init_thread.pc = "connect"
    /\ conn.n = 0
    /\ ConnectUnavailable \/ ConnectStart

\* connect() has returned: the branch of a failed connection, or the start of
\* the positions step
InitConnectReturned ==
    /\ init_thread.pc = "connect"
    /\ conn.pc = "idle"
    /\ conn.n = 1
    /\ LET k == [init_thread EXCEPT !.connected = (conn.ret = "True")]
       IN  init_thread' =
             IF ~k.connected
             THEN RunReturns(EmitStatus(Emit(k, 100), "completed_partially"), TRUE)
             ELSE IF ~k.stop_requested
             THEN StartWorker(Emit(k, 40), "get_positions")
             ELSE RunReturns(k, TRUE)
    /\ UNCHANGED initVars

\* the test of lines 5734-5755 after the positions step
AfterPositions ==
    /\ init_thread.pc = "after_positions"
    /\ init_thread' =
         IF init_thread.stop_requested THEN RunReturns(init_thread, TRUE)
         ELSE [init_thread EXCEPT !.pc = "account_check"]
    /\ UNCHANGED initVars

\* step 4: the account information, unless a stop is requested
AccountCheck ==
    /\ init_thread.pc = "account_check"
    /\ init_thread' =
         IF ~init_thread.stop_requested
         THEN StartWorker(Emit(init_thread, 60), "get_account_info")
         ELSE [init_thread EXCEPT !.pc = "update_check"]
    /\ UNCHANGED initVars

\* step 5: the positions are added to the pool
UpdateCheck ==
    /\ init_thread.pc = "update_check"
    /\ init_thread' =
         IF ~init_thread.stop_requested /\ init_thread.positions # <<>>
         THEN StartWorker(Emit(init_thread, 80), "update_pool")
         ELSE [init_thread EXCEPT !.pc = "history"]
    /\ UNCHANGED initVars

\* step 6: the check of the history data, a sleep
CheckHistory ==
    /\ init_thread.pc = "history"
    /\ init_thread' =
         [(IF ~init_thread.stop_requested THEN Emit(init_thread, 95) ELSE init_thread)
            EXCEPT !.pc = "show_first"]
    /\ UNCHANGED initVars

\* step 7: the first stock of the pool
ShowFirst ==
    /\ init_thread.pc = "show_first"
    /\ init_thread' =
         IF ~init_thread.stop_requested /\ FirstStockRaises(init_thread.stocks)
         THEN RunFails(init_thread)
         ELSE [init_thread EXCEPT !.pc = "finish"]
    /\ UNCHANGED initVars

\* the end of run(): completed, or aborted by a stop request
Finish ==
    /\ init_thread.pc = "finish"
    /\ init_thread' =
         RunReturns(EmitStatus(Emit(init_thread, 100),
                               IF ~init_thread.stop_requested THEN "completed"
                               ELSE "aborted"),
                    TRUE)
    /\ UNCHANGED initVars

\* InitializationThread.stop, called by another thread while run() is running
Stop ==
    /\ init_thread.pc \notin {"idle", "done"}
    /\ ~init_thread.stop_requested
    /\ init_thread' = [init_thread EXCEPT !.stop_requested = TRUE]
    /\ UNCHANGED initVars

QuoteInit ==
    /\ AKSHARE_AVAILABLE \in BOOLEAN
    /\ MYQUANT_AVAILABLE \in BOOLEAN
    /\ connected \in {b \in BOOLEAN : b => MYQUANT_AVAILABLE}
    /\ data_cache = EmptyMap
    /\ cache_time = EmptyMap
    /\ now = 0
    /\ grd = [c \in Callers |-> IdleFrame]
    /\ prev = [c \in Callers |-> NoPrev]
    /\ ncalls = 0
    /\ conn = ConnIdle
    /\ gateway = GatewayIdle
    /\ engine = EngineIdle
    /\ init_thread = InitThreadIdle

(***************************************************************************)
(* QuoteSpec: one thread calls get_realtime_data with any batch; between   *)
(* two calls a whole cache period may pass.                                *)
(***************************************************************************)
QuoteCall ==
    /\ ncalls < MaxCalls
    /\ \E symbols \in Batches, force_refresh \in BOOLEAN :
         get_realtime_data(1, symbols, force_refresh)

QuotePeriodPasses == grd[1].pc = "idle" /\ Tick(cache_expiry)

QuoteNext ==
    \/ QuoteCall
    \/ GRD_Primary(1)
    \/ GRD_Fallback(1)
    \/ GRD_StoreData(1)
    \/ GRD_StoreTime(1)
    \/ clear_cache(1)
    \/ QuotePeriodPasses

QuoteSpec == QuoteInit /\ [][QuoteNext]_vars

(***************************************************************************)
(* CacheSpec: one thread asks for the same symbol again and again, while   *)
(* the clock advances second by second, also during the fetches.           *)
(***************************************************************************)
CacheSymbols == {s \in Symbols : IsSixDigits(CleanCode(s))}

CacheCall ==
    /\ ncalls < MaxCacheCalls
    /\ \E s \in CacheSymbols, force_refresh \in BOOLEAN :
         /\ ncalls > 0 => grd[1].symbols = <<s>>
         /\ get_realtime_data(1, <<s>>, force_refresh)

\* The clock is started by the first call and is followed up to the return
\* of the last one.
CacheTick ==
    /\ grd[1].pc \in {"idle", "primary", "fallback"}
    /\ ncalls > 0
    /\ grd[1].pc = "idle" => ncalls < MaxCacheCalls
    /\ grd[1].pc # "idle" => now - grd[1].current_time < MaxFetchTime
    /\ Tick(1)

CacheNext ==
    \/ CacheCall
    \/ GRD_Primary(1)
    \/ GRD_Fallback(1)
    \/ GRD_StoreData(1)
    \/ GRD_StoreTime(1)
    \/ clear_cache(1)
    \/ CacheTick

CacheSpec == QuoteInit /\ [][CacheNext]_vars

(***************************************************************************)
(* ConnSpec: connect() is called, again after it returned, with an SDK     *)
(* whose calls return, raise or hang.                                      *)
(***************************************************************************)
ConnInit ==
    /\ AKSHARE_AVAILABLE = TRUE
    /\ MYQUANT_AVAILABLE \in BOOLEAN
    /\ connected = FALSE
    /\ data_cache = EmptyMap
    /\ cache_time = EmptyMap
    /\ now = 0
    /\ grd = [c \in Callers |-> IdleFrame]
    /\ prev = [c \in Callers |-> NoPrev]
    /\ ncalls = 0
    /\ conn = ConnIdle
    /\ gateway = GatewayIdle
    /\ engine = EngineIdle
    /\ init_thread = InitThreadIdle

ConnNext ==
    \/ ConnectUnavailable
    \/ ConnectStart
    \/ ApiWorkerEnds
    \/ TestApiCallReturns
    \/ AbandonedApiEnds
    \/ TimerFires
    \/ ConnectReturns
    \/ ConnTick

ConnSpec == ConnInit /\ [][ConnNext]_vars

\* The threads of the program are scheduled and the clock advances; nothing is
\* assumed of the SDK calls, which may never end.
ConnFairness ==
    /\ WF_vars(TestApiCallReturns)
    /\ WF_vars(TimerFires)
    /\ WF_vars(ConnectReturns)
    /\ WF_vars(ConnTick)

FairConnSpec == ConnSpec /\ ConnFairness

(***************************************************************************)
(* RaceSpec: two threads call get_realtime_data on the same client for one *)
(* symbol, with no lock between them; their steps interleave, a thread in  *)
(* no call may clear the cache, and the clock advances during the calls.   *)
(***************************************************************************)
RaceCall ==
    /\ ncalls < MaxRaceCalls
    /\ \E c \in Callers, s \in CacheSymbols, force_refresh \in BOOLEAN :
         /\ ncalls > 0 => \E d \in Callers : grd[d].symbols = <<s>>
         /\ get_realtime_data(c, <<s>>, force_refresh)

RaceTick ==
    /\ \E c \in Callers : grd[c].pc \in {"primary", "fallback"}
    /\ \A c \in Callers :
          grd[c].pc # "idle" => now - grd[c].current_time < MaxFetchTime
    /\ Tick(1)

RaceNext ==
    \/ RaceCall
    \/ \E c \in Callers : GRD_Primary(c)
    \/ \E c \in Callers : GRD_Fallback(c)
    \/ \E c \in Callers : GRD_StoreData(c)
    \/ \E c \in Callers : GRD_StoreTime(c)
    \/ \E c \in Callers : clear_cache(c)
    \/ RaceTick

RaceSpec == QuoteInit /\ [][RaceNext]_vars

(***************************************************************************)
(* InitSpec: one InitializationThread runs once, on a stock pool that      *)
(* StockPool.__init__ has loaded, empty or not.                            *)
(***************************************************************************)
InitInit ==
    /\ AKSHARE_AVAILABLE = TRUE
    /\ MYQUANT_AVAILABLE \in BOOLEAN
    /\ connected = FALSE
    /\ data_cache = EmptyMap
    /\ cache_time = EmptyMap
    /\ now = 0
    /\ grd = [c \in Callers |-> IdleFrame]
    /\ prev = [c \in Callers |-> NoPrev]
    /\ ncalls = 0
    /\ conn = ConnIdle
    /\ gateway = GatewayIdle
    /\ engine = EngineIdle
    /\ \E stocks \in {{}, {Code600000}} :
          init_thread = [InitThreadIdle EXCEPT !.stocks = stocks]

\* the steps of the thread that runs run()
InitMain ==
    \/ InitRun
    \/ ExecReturns
    \/ CheckClient
    \/ InitConnect
    \/ InitConnectReturned
    \/ AfterPositions
    \/ AccountCheck
    \/ UpdateCheck
    \/ CheckHistory
    \/ ShowFirst
    \/ Finish

\* The threads of connect() are followed while run() is in its call of
\* connect(); the worker that connect() may leave behind and the SDK calls
\* abandoned by a timeout have no effect on run().
InConnect(A) == init_thread.pc = "connect" /\ conn.pc = "joining" /\ A

InitNext ==
    \/ InitMain
    \/ WorkerEnds
    \/ ExecTick
    \/ Stop
    \/ InConnect(ApiWorkerEnds)
    \/ InConnect(TestApiCallReturns)
    \/ InConnect(TimerFires)
    \/ InConnect(ConnectReturns)
    \/ InConnect(ConnTick)

InitSpec == InitInit /\ [][InitNext]_vars

\* The threads of the program are scheduled and the clock advances; nothing is
\* assumed of the workers and of the SDK calls, which may never end.
InitFairness ==
    /\ WF_vars(InitMain)
    /\ WF_vars(ExecTick)
    /\ WF_vars(InConnect(TestApiCallReturns))
    /\ WF_vars(InConnect(TimerFires))
    /\ WF_vars(InConnect(ConnectReturns))
    /\ WF_vars(InConnect(ConnTick))

FairInitSpec == InitSpec /\ InitFairness

(***************************************************************************)
(* SignalSpec: one SignalEngine evaluates one input after another.         *)
(***************************************************************************)
SignalInit ==
    /\ AKSHARE_AVAILABLE = TRUE
    /\ MYQUANT_AVAILABLE = TRUE
    /\ connected = FALSE
    /\ data_cache = EmptyMap
    /\ cache_time = EmptyMap
    /\ now = 0
    /\ grd = [c \in Callers |-> IdleFrame]
    /\ prev = [c \in Callers |-> NoPrev]
    /\ ncalls = 0
    /\ conn = ConnIdle
    /\ gateway = GatewayIdle
    /\ engine = EngineIdle
    /\ init_thread = InitThreadIdle

SignalNext == Evaluate

SignalSpec == SignalInit /\ [][SignalNext]_vars

(***************************************************************************)
(* GatewaySpec: gateway operations are called between the calls of         *)
(* connect().                                                              *)
(***************************************************************************)
\* a gateway operation is called and returns (or blocks in the SDK)
GatewayCall ==
    /\ conn.pc = "idle"
    /\ gateway.n < MaxGatewayCalls
    /\ \E op \in GatewayOps :
         IF op = "_get_realtime_data_from_myquant"
         THEN \E symbols \in Batches :
                \E world \in MqWorlds(CleanCodes(symbols) \cap GmCodes) :
                  LET r == _get_realtime_data_from_myquant(symbols, world, is_connected)
                  IN  gateway' = [op |-> op,
                                  ret |-> IF r.hung THEN "blocked"
                                          ELSE IF r.data = <<>> THEN FailureValue(op)
                                          ELSE "value",
                                  sdk_called |-> r.called,
                                  raised |-> FALSE,
                                  n |-> gateway.n + 1]
         ELSE \E outcome \in SdkOutcomes :
                LET r == GatewayReturn(op, is_connected, outcome)
                IN  gateway' = [op |-> op, ret |-> r.ret, sdk_called |-> r.sdk_called,
                                raised |-> r.raised, n |-> gateway.n + 1]
    /\ UNCHANGED <<init_thread, engine, quoteVars, MYQUANT_AVAILABLE, connected, conn>>

GatewayNext ==
    \/ ConnectUnavailable
    \/ ConnectStart
    \/ ApiWorkerEnds
    \/ TestApiCallReturns
    \/ AbandonedApiEnds
    \/ TimerFires
    \/ ConnectReturns
    \/ ConnTick
    \/ GatewayCall

GatewaySpec == ConnInit /\ [][GatewayNext]_vars

(***************************************************************************)
(* Properties of the quote service.                                        *)
(***************************************************************************)

\* The frame is the second of two calls for the same single symbol, both with
\* force_refresh = False, started less than cache_expiry apart.
RepeatedWithinExpiry(f, p) ==
    /\ p.valid
    /\ f.pc # "idle" \/ f.returned \/ f.raised
    /\ Len(f.symbols) = 1
    /\ f.symbols = p.symbols
    /\ ~f.force_refresh
    /\ ~p.force_refresh
    /\ f.current_time - p.current_time < cache_expiry

\* The call of the frame has returned the quotes of p and has called no provider.
ServedAsBefore(f, p) ==
    /\ f.returned
    /\ f.result = p.result
    /\ f.ak_batches = <<>>
    /\ f.mq_batches = <<>>

\* C1 as stated: for every symbol s, when get_realtime_data([s], force_refresh=False)
\* is called twice less than cache_expiry apart, the second call returns the same
\* quote as the first and calls no provider.
C1_CacheFreshnessAsStated ==
    \A c \in Callers :
        RepeatedWithinExpiry(grd[c], prev[c]) => ServedAsBefore(grd[c], prev[c])

\* C1 amended: when the first of the two calls fetched the quote of s from a
\* provider and clear_cache is not called between them, the second call returns
\* the same quote as the first and calls no provider.
C1_CacheFreshness ==
    \A c \in Callers :
        ( /\ RepeatedWithinExpiry(grd[c], prev[c])
          /\ prev[c].stored = CleanCodes(prev[c].symbols)
          /\ ~prev[c].cleared )
        => ServedAsBefore(grd[c], prev[c])

\* C1 witness: a second call, some seconds after the first fetched the quote,
\* has been answered.
C1_Witness ==
    /\ RepeatedWithinExpiry(grd[1], prev[1])
    /\ prev[1].stored = CleanCodes(prev[1].symbols)
    /\ ~prev[1].cleared
    /\ grd[1].current_time > prev[1].current_time
    /\ grd[1].returned
    /\ DOMAIN grd[1].result # {}

\* every batch given to a provider in the call is the whole list of symbols
WholeBatches(f) ==
    /\ \A i \in 1..Len(f.ak_batches) : f.ak_batches[i] = f.symbols
    /\ \A i \in 1..Len(f.mq_batches) : f.mq_batches[i] = f.symbols

\* a returned call with force_refresh = True, the cache not cleared since
ForcedReturned(f) ==
    f.returned /\ f.force_refresh /\ f.symbols # <<>> /\ ~f.cleared

\* C2 as stated: a call with force_refresh = True calls the provider chain for every
\* requested symbol, however fresh the cache, and sets the fetch time of the
\* requested symbols to the time of the call.
C2_ForceRefreshAsStated ==
    \A c \in Callers :
        LET f == grd[c]
        IN  ForcedReturned(f) =>
              /\ Len(f.ak_batches) + Len(f.mq_batches) > 0
              /\ WholeBatches(f)
              /\ \A k \in CleanCodes(f.symbols) :
                    k \in DOMAIN cache_time /\ cache_time[k] = f.current_time

\* C2 amended: a call with force_refresh = True serves no symbol from the cache,
\* however fresh its entry: the whole list of symbols is the batch to fetch, it is
\* given to the primary provider whenever AKShare is available and to every
\* provider that is called, and the fetch time of every symbol that a provider
\* returned is set to the time read at the start of the call.
C2_ForceRefresh ==
    \A c \in Callers :
        LET f == grd[c]
        IN  /\ (f.force_refresh /\ f.symbols # <<>>) =>
                  /\ f.need_fetch = f.symbols
                  /\ f.hits = {}
                  /\ WholeBatches(f)
            /\ ForcedReturned(f) =>
                  /\ AKSHARE_AVAILABLE => f.ak_batches = <<f.symbols>>
                  /\ DOMAIN f.result = DictKeys(f.fetched_data)
                  /\ \A k \in DOMAIN f.result :
                        /\ k \in DOMAIN cache_time /\ cache_time[k] = f.current_time
                        /\ k \in DOMAIN data_cache /\ data_cache[k] = f.result[k]

\* C2 witness: a forced call for a symbol whose entry was fresh has fetched it again.
C2_Witness ==
    /\ ForcedReturned(grd[1])
    /\ prev[1].valid
    /\ prev[1].symbols = grd[1].symbols
    /\ prev[1].stored # {}
    /\ ~prev[1].cleared
    /\ grd[1].current_time - prev[1].current_time < cache_expiry
    /\ grd[1].ak_batches # <<>>
    /\ DOMAIN grd[1].result # {}

\* C3: in one call the fallback is not invoked when the primary returned
\* something, and it is invoked only when the gateway is connected.
C3_FallbackOrdering ==
    \A c \in Callers :
        LET f == grd[c]
        IN  /\ f.ak_returned # {} => (f.mq_batches = <<>> /\ ~f.gm_called /\ f.pc # "fallback")
            /\ (f.mq_batches # <<>> \/ f.gm_called \/ f.pc = "fallback") =>
                  (is_connected /\ ~f.akshare_success /\ f.ak_returned = {})

\* C3 witness: the primary was called and returned nothing, the gateway is
\* connected, and the fallback has served the call.
C3_Witness ==
    /\ grd[1].returned
    /\ grd[1].ak_batches # <<>>
    /\ grd[1].ak_returned = {}
    /\ grd[1].gm_called
    /\ DOMAIN grd[1].result # {}

\* C4: when nothing is served from the cache and the providers can resolve only
\* the subset R of the batch, the call returns a mapping whose keys are exactly R
\* and raises nothing.
C4_PartialBatch ==
    \A c \in Callers :
        LET f == grd[c]
        IN  /\ f.hits = {} => ~f.raised
            /\ (f.returned /\ f.hits = {}) => DOMAIN f.result = f.resolved

\* C4 witness: two valid symbols were asked for and exactly one was resolved.
C4_Witness ==
    /\ grd[1].returned
    /\ grd[1].hits = {}
    /\ Cardinality(CleanCodes(grd[1].symbols) \cap Codes) = 2
    /\ Cardinality(DOMAIN grd[1].result) = 1

\* C5: no call raises; a call in which providers raised or returned nothing
\* returns the cache hits and the fetched symbols only.
C5_NoProviderFailureEscapes ==
    \A c \in Callers :
        LET f == grd[c]
        IN  /\ ~f.raised
            /\ f.returned =>
                  /\ DOMAIN f.result = f.hits \cup DictKeys(f.fetched_data)
                  /\ DOMAIN f.result \subseteq CleanCodes(f.symbols)

\* C5 witness: both snapshot calls and gm.current raised, and the call returned
\* the one symbol it had in the cache.
C5_Witness ==
    /\ grd[1].returned
    /\ grd[1].caught = {"AKShare", "MyQuant"}
    /\ grd[1].hits # {}
    /\ DOMAIN grd[1].result = grd[1].hits
    /\ Len(grd[1].need_fetch) > 0

\* C6 as stated: every provider fetch is bounded, so no caller of
\* get_realtime_data is ever held in a provider call that does not return.
C6_CallerNeverBlocked ==
    \A c \in Callers : grd[c].pc # "blocked"

(***************************************************************************)
(* Properties of connect() and of its runner test_api_call.                *)
(***************************************************************************)

\* C7: when the operation has not finished at the end of its timeout, the runner
\* returns (False, None) at that moment and connect_worker goes on; the
\* operation is not stopped: it still runs, or has ended later by itself.
C7_BoundedTaskTimeout ==
    \A p \in Probes :
        LET e == conn.log[p]
        IN  /\ e.how = "timeout" =>
                  /\ ~e.success
                  /\ e.value = "None"
                  /\ e.end - e.start = ProbeTimeout(p)
                  /\ conn.wpc # p
                  /\ p \in conn.abandoned \cup conn.late
            /\ p \in conn.abandoned \cup conn.late => e.how = "timeout"

\* C7 witness: set_account_id timed out and still runs while the worker has
\* already finished the next probe.
C7_Witness ==
    /\ conn.log["set_account_id"].how = "timeout"
    /\ "set_account_id" \in conn.abandoned
    /\ conn.log["current"].how # "not_run"

C9_ConnectAlwaysReturns ==
    /\ [](conn.pc = "joining" => conn.t <= JoinTimeout)
    /\ (conn.pc = "joining") ~> (conn.pc = "idle" /\ conn.ret \in {"True", "False"})

\* C9 witness: connect() has returned at the end of its join while an SDK call
\* of its worker still hangs.
C9_Witness ==
    /\ conn.pc = "idle"
    /\ conn.ret = "False"
    /\ conn.t = JoinTimeout
    /\ conn.wpc \in Probes
    /\ conn.api = "running"

\* C10 as stated: connect() returns True only after the quote probe returned
\* rows or the cash probe returned a balance; a probe that merely raised no
\* error is not enough.
C10_ConnectedOnlyOnExplicitSuccess ==
    (conn.pc = "idle" /\ conn.ret = "True") =>
        \/ conn.log["current"].success /\ conn.log["current"].value = "rows"
        \/ conn.log["get_cash"].success /\ conn.log["get_cash"].value = "cash"

\* C11 as stated: when the 4 s timer fires before any probe has reported
\* success, connect() returns False by the timeout branch and connected is False.
C11_DeadlineBeforeSuccessFails ==
    (conn.pc = "idle" /\ conn.ret \in {"True", "False"} /\ conn.deadline_first) =>
        /\ conn.ret = "False"
        /\ conn.reason = "timeout"
        /\ ~connected

\* C12 as stated: when every probe that connect_worker ran has failed, connect()
\* returns False by the timeout branch and connected is False.
C12_AllProbesFailTimedOut ==
    (/\ conn.pc = "idle"
     /\ conn.log["set_token"].how # "not_run"
     /\ \A p \in Probes : ~conn.log[p].success) =>
        /\ conn.ret = "False"
        /\ conn.reason = "timeout"
        /\ ~connected

\* C13: with MYQUANT_AVAILABLE false, connect() returns False at once and starts
\* no probe, is_connected() is False, and every gateway operation returns its
\* failure value with no SDK call and no exception.
C13_UnavailableSdk ==
    ~MYQUANT_AVAILABLE =>
        /\ ~is_connected
        /\ ~connected
        /\ conn.pc = "idle"
        /\ conn.ret \in {"none", "False"}
        /\ conn.wpc = "none"
        /\ \A p \in Probes : conn.log[p].how = "not_run"
        /\ gateway.op # "none" =>
              /\ gateway.ret = FailureValue(gateway.op)
              /\ ~gateway.sdk_called
              /\ ~gateway.raised

\* C13 witness: without the SDK, connect() has returned False and place_order
\* has returned its failure value.
C13_Witness ==
    /\ ~MYQUANT_AVAILABLE
    /\ conn.ret = "False"
    /\ conn.reason = "unavailable"
    /\ gateway.op = "place_order"
    /\ gateway.ret = "success: False"

(***************************************************************************)
(* Properties of the signal engine.                                        *)
(***************************************************************************)
Names(results) == {results[i][2] : i \in DOMAIN results}
Count(results, name) == Cardinality({i \in DOMAIN results : results[i][2] = name})
Periods == {ma_periods[i] : i \in DOMAIN ma_periods}

\* the defined values of the series of period p in the last call
MaValues(p) == DropNa(engine.indicators[MaCol(p)])

\* the step before the last of series v falls and its last step rises
FallsThenRises(v) ==
    Len(v) >= 3 /\ v[Len(v) - 1] < v[Len(v) - 2] /\ v[Len(v)] > v[Len(v) - 1]

RisesThenFalls(v) ==
    Len(v) >= 3 /\ v[Len(v) - 1] > v[Len(v) - 2] /\ v[Len(v)] < v[Len(v) - 1]

LastCloseAboveMa60 ==
    /\ "MA60" \in DOMAIN engine.indicators
    /\ Gt(Last(engine.data.Close), Last(engine.indicators["MA60"]))

LastCloseBelowMa60 ==
    /\ "MA60" \in DOMAIN engine.indicators
    /\ Lt(Last(engine.data.Close), Last(engine.indicators["MA60"]))

\* C14: a bottom-turn signal of period w is in the results only if the defined
\* values of MA w fell in the step before the last and rose in the last step and
\* the last close is above the last MA60; a top-turn signal only under the
\* mirror condition with the last close below the last MA60.
C14_TurningPointCondition ==
    \A p \in Periods :
        /\ TurnName(p, "bottom") \in Names(engine.results) =>
              /\ MaCol(p) \in DOMAIN engine.indicators
              /\ FallsThenRises(MaValues(p))
              /\ LastCloseAboveMa60
        /\ TurnName(p, "top") \in Names(engine.results) =>
              /\ MaCol(p) \in DOMAIN engine.indicators
              /\ RisesThenFalls(MaValues(p))
              /\ LastCloseBelowMa60

\* C14 witness: an evaluation has emitted the bottom turn of MA5.
C14_Witness ==
    /\ engine.evals >= 1
    /\ "ma5_bottom_turn" \in Names(engine.results)
    /\ LastCloseAboveMa60

\* the last step of v, relative to the value before it, against the threshold
LastStepBelow(v) ==
    Abs(v[Len(v)] - v[Len(v) - 1]) * AmplitudeDen < AmplitudeNum * Abs(v[Len(v) - 1])

LastStepAbove(v) ==
    Abs(v[Len(v)] - v[Len(v) - 1]) * AmplitudeDen > AmplitudeNum * Abs(v[Len(v) - 1])

\* C15 as stated: for an MA series of at least six defined values whose step
\* before the last falls and whose last step rises, under the bullish gate, the
\* bottom turn is not emitted when the last relative step is below the threshold
\* and is emitted when it is above; likewise for the top turn.
C15_AmplitudeGate ==
    (engine.evals >= 1 /\ engine.data.has_close /\ ~engine.raised) =>
        \A p \in {q \in Periods : MaCol(q) \in DOMAIN engine.indicators} :
            LET v == MaValues(p)
            IN  Len(v) >= 6 =>
                  /\ (FallsThenRises(v) /\ LastCloseAboveMa60 /\ LastStepBelow(v))
                        => TurnName(p, "bottom") \notin Names(engine.results)
                  /\ (FallsThenRises(v) /\ LastCloseAboveMa60 /\ LastStepAbove(v))
                        => TurnName(p, "bottom") \in Names(engine.results)
                  /\ (RisesThenFalls(v) /\ LastCloseBelowMa60 /\ LastStepBelow(v))
                        => TurnName(p, "top") \notin Names(engine.results)
                  /\ (RisesThenFalls(v) /\ LastCloseBelowMa60 /\ LastStepAbove(v))
                        => TurnName(p, "top") \in Names(engine.results)

\* C16 as stated: after an evaluation the results hold the alignment signal that
\* detect_ma_alignment finds for the indicators, and no alignment signal when it
\* finds none.
C16_AlignmentInResults ==
    (/\ engine.evals >= 1
     /\ engine.data.has_close
     /\ ~engine.raised
     /\ \A k \in {"MA5", "MA10", "MA20"} :
           k \in DOMAIN engine.indicators /\ engine.indicators[k] # <<>>) =>
        LET a == detect_ma_alignment(engine.indicators)
        IN  /\ a.is_signal => a.name \in Names(engine.results)
            /\ ~a.is_signal =>
                  Names(engine.results) \cap {"ma_multi_bull", "ma_multi_bear"} = {}

\* the last call had MACD and MACD_Signal series of n bars each whose last two
\* differences are prev_cross and current_cross, and data it can read
MacdBars(n, prev_cross, current_cross) ==
    /\ engine.evals >= 1
    /\ engine.data.has_close
    /\ "MA60" \in DOMAIN engine.indicators =>
          (engine.data.Close # <<>> /\ engine.indicators["MA60"] # <<>>)
    /\ {"MACD", "MACD_Signal"} \subseteq DOMAIN engine.indicators
    /\ LET macd == engine.indicators["MACD"]
           signal == engine.indicators["MACD_Signal"]
       IN  /\ Len(macd) = n
           /\ Len(signal) = n
           /\ n >= 2
           /\ Sub(macd[n - 1], signal[n - 1]) = prev_cross
           /\ Sub(macd[n], signal[n]) = current_cross

\* the results hold exactly one signal name, at the last index of n bars, and no
\* signal other
OneCross(n, name, other) ==
    /\ Count(engine.results, name) = 1
    /\ Count(engine.results, other) = 0
    /\ \A i \in DOMAIN engine.results :
          engine.results[i][2] = name => engine.results[i][3] = n - 1

\* C17 as stated: a two-bar series whose MACD minus Signal goes from -0.1 to +0.1
\* yields exactly one macd_golden_cross at the last index, and one going from
\* +0.1 to -0.1 exactly one macd_death_cross.
C17_TwoBarCross ==
    /\ MacdBars(2, -1, 1) => OneCross(2, "macd_golden_cross", "macd_death_cross")
    /\ MacdBars(2, 1, -1) => OneCross(2, "macd_death_cross", "macd_golden_cross")

\* C17 amended: a series of three bars whose last two values of MACD minus
\* Signal go from -0.1 to +0.1 yields exactly one macd_golden_cross, at the last
\* index, and no death cross; one going from +0.1 to -0.1 yields exactly one
\* macd_death_cross and no golden cross; a two-bar series yields neither.
C17_ThreeBarCross ==
    /\ MacdBars(3, -1, 1) => OneCross(3, "macd_golden_cross", "macd_death_cross")
    /\ MacdBars(3, 1, -1) => OneCross(3, "macd_death_cross", "macd_golden_cross")
    /\ \A a \in {-1, 1} :
          MacdBars(2, a, -a) =>
              Names(engine.results) \cap {"macd_golden_cross", "macd_death_cross"} = {}

\* C17 witness: a three-bar golden cross has been evaluated and is in the results.
C17_Witness ==
    /\ MacdBars(3, -1, 1)
    /\ "macd_golden_cross" \in Names(engine.results)

\* C18: after every evaluation the results are what a new engine gives for the
\* arguments of that call, and every signal carries the symbol of that call.
C18_RecomputedFromScratch ==
    engine.evals >= 1 =>
        /\ engine.results =
              run_all_strategies(<<>>, engine.data, engine.indicators,
                                 engine.symbol).results
        /\ \A i \in DOMAIN engine.results : engine.results[i][1] = engine.symbol

\* C18 witness: a second evaluation began with signals in the results and has
\* left none.
C18_Witness ==
    /\ engine.evals = 2
    /\ engine.had_signals
    /\ engine.results = <<>>
    /\ ~engine.raised

\* the series of key k is missing, or has fewer than n defined values
Disabled(k, n) ==
    k \notin DOMAIN engine.indicators \/ Len(DropNa(engine.indicators[k])) < n

\* C19 as stated: an evaluation raises no error, and a rule whose series is
\* missing, too short or all undefined emits no signal.
C19_ShortSeriesSilent ==
    (engine.evals >= 1 /\ engine.data.has_close) =>
        /\ ~engine.raised
        /\ \A p \in Periods :
              Disabled(MaCol(p), 6) =>
                  {TurnName(p, "bottom"), TurnName(p, "top")} \cap Names(engine.results) = {}
        /\ (Disabled("MACD", 3) \/ Disabled("MACD_Signal", 2)) =>
              {"macd_golden_cross", "macd_death_cross"} \cap Names(engine.results) = {}
        /\ Disabled("RSI", 3) =>
              {"rsi_overbought", "rsi_oversold"} \cap Names(engine.results) = {}

\* the indicator series a signal name is computed from
SeriesOf(name) ==
    CASE name \in {"macd_golden_cross", "macd_death_cross"} -> "MACD"
      [] name \in {"rsi_overbought", "rsi_oversold"} -> "RSI"
      [] OTHER -> MaCol(CHOOSE p \in Periods :
                          name \in {TurnName(p, "bottom"), TurnName(p, "top")})

\* C30 as stated: a signal computed from an indicator series that has as many
\* rows n as the bars, undefined warm-up rows included, carries the index n - 1.
C30_SignalAtLastBar ==
    (engine.evals >= 1 /\ engine.data.has_close) =>
        \A i \in DOMAIN engine.results :
            LET n == Len(engine.data.Close)
                k == SeriesOf(engine.results[i][2])
            IN  (k \in DOMAIN engine.indicators /\ Len(engine.indicators[k]) = n)
                    => engine.results[i][3] = n - 1

\* C20: in one call each provider fetch is invoked at most once and with the
\* list need_fetch of that call, which holds the symbols not served from the
\* cache; when that list is empty the call returns with no provider invoked.
C20_Batching ==
    \A c \in Callers :
        LET f == grd[c]
        IN  /\ Len(f.ak_batches) <= 1
            /\ Len(f.mq_batches) <= 1
            /\ \A i \in DOMAIN f.ak_batches : f.ak_batches[i] = f.need_fetch
            /\ \A i \in DOMAIN f.mq_batches : f.mq_batches[i] = f.need_fetch
            /\ f.need_fetch = SelectSeq(f.symbols, LAMBDA x : CleanCode(x) \notin f.hits)
            /\ f.need_fetch = <<>> =>
                  /\ f.ak_batches = <<>>
                  /\ f.mq_batches = <<>>
                  /\ ~f.gm_called
                  /\ f.pc = "idle"

\* C20 witness: a call for two symbols has given both providers, once each, the
\* batch of the two symbols.
C20_Witness ==
    /\ grd[1].returned
    /\ Len(grd[1].need_fetch) = 2
    /\ grd[1].ak_batches = <<grd[1].need_fetch>>
    /\ grd[1].mq_batches = <<grd[1].need_fetch>>
    /\ grd[1].gm_called

(***************************************************************************)
(* Properties of the probes of connect() and of the connection state.      *)
(***************************************************************************)

\* test_api_call has returned for probe p in this attempt
Ran(p) == conn.log[p].how # "not_run"

\* probe p has been started in this attempt
Started(p) == Ran(p) \/ conn.wpc = p

StartOf(p) == IF Ran(p) THEN conn.log[p].start ELSE conn.wait_start

\* probe q was started after test_api_call had returned for probe p, by the
\* return of its call or by its timeout
Follows(q, p) ==
    Started(q) =>
        /\ Ran(p)
        /\ conn.log[p].how \in {"returned", "raised", "timeout"}
        /\ conn.log[p].how = "timeout" =>
              conn.log[p].end - conn.log[p].start >= ProbeTimeout(p)
        /\ conn.log[p].end <= StartOf(q)

\* C25: in one attempt the probes start in the order set_token, set_account_id,
\* current, get_cash, each after test_api_call has returned for the one before it
\* (its call ended or its wait timed out), and get_cash is started only when the
\* current probe did not return rows.
C25_ProbeOrdering ==
    /\ Follows("set_account_id", "set_token")
    /\ Follows("current", "set_account_id")
    /\ Follows("get_cash", "current")
    /\ Started("get_cash") =>
          ~(conn.log["current"].success /\ conn.log["current"].value = "rows")
    /\ conn.n >= 1 /\ MYQUANT_AVAILABLE => Started("set_token")

\* C25 witness: the cash probe has run after the wait for the current probe
\* timed out.
C25_Witness ==
    /\ Ran("get_cash")
    /\ conn.log["current"].how = "timeout"
    /\ conn.log["set_account_id"].how = "returned"

\* C26: is_connected() goes from False to True only in the step in which a
\* call of connect() returns True; no step of a worker, running or left behind,
\* changes it.
C26_AbandonedProbe ==
    [][(~is_connected /\ is_connected') =>
          (conn.pc = "joining" /\ conn'.pc = "idle" /\ conn'.ret = "True")]_vars

\* C26 witness: connect() returned False with its worker still in a probe, and
\* the worker has since set connection_success.
C26_Witness ==
    /\ conn.pc = "idle"
    /\ conn.ret = "False"
    /\ conn.reason = "timeout"
    /\ conn.connection_success
    /\ conn.wpc = "done"
    /\ ~is_connected

\* C27: after a call of connect() has returned r, is_connected() equals r.
C27_ConnectAgreesWithState ==
    (conn.pc = "idle" /\ conn.n >= 1) =>
        /\ conn.ret \in {"True", "False"}
        /\ is_connected <=> conn.ret = "True"

\* C27 witness: an attempt made while the client was connected has failed and
\* has left it not connected.
C27_Witness ==
    /\ conn.pc = "idle"
    /\ conn.n = 2
    /\ conn.was_connected
    /\ conn.ret = "False"
    /\ ~is_connected

(***************************************************************************)
(* Properties of the cache of the quote service.                           *)
(***************************************************************************)

\* the step is the start of a call of get_realtime_data by c
CallStarts(c) ==
    grd[c].pc = "idle" /\ ncalls' = ncalls + 1 /\ grd'[c] # grd[c]

\* the step is a write of line 829 (data_cache) or of line 830 (cache_time) for code k
WritesData(c, k) ==
    /\ grd[c].pc = "store_data"
    /\ grd'[c] # grd[c]
    /\ grd[c].fetched_data[grd[c].i].key = k

WritesTime(c, k) ==
    /\ grd[c].pc = "store_time"
    /\ grd'[c] # grd[c]
    /\ grd[c].fetched_data[grd[c].i].key = k

\* C21: a call with force_refresh = False serves a symbol from the cache if and
\* only if the symbol has an entry whose age, at the time read at the start of the
\* call, is strictly less than cache_expiry; an entry whose age equals
\* cache_expiry is fetched again.
C21_FreshnessBoundary ==
    [][\A c \in Callers :
          (CallStarts(c) /\ ~grd'[c].force_refresh) =>
              \A i \in 1..Len(grd'[c].symbols) :
                  LET s == grd'[c].symbols[i]
                      k == CleanCode(s)
                      fresh == /\ k \in DOMAIN data_cache
                               /\ k \in DOMAIN cache_time
                               /\ now - cache_time[k] < cache_expiry
                      hit == /\ k \in grd'[c].hits
                             /\ k \in DOMAIN grd'[c].result
                             /\ grd'[c].result[k] = data_cache[k]
                      miss == \E j \in 1..Len(grd'[c].need_fetch) : grd'[c].need_fetch[j] = s
                  IN  /\ hit <=> fresh
                      /\ miss <=> ~fresh]_vars

\* C21 witness: a call with force_refresh = False, started exactly cache_expiry
\* after the call that fetched the entry, has the symbol in its batch to fetch.
C21_Witness ==
    /\ prev[1].valid
    /\ prev[1].stored = CleanCodes(prev[1].symbols)
    /\ ~prev[1].cleared
    /\ grd[1].symbols = prev[1].symbols
    /\ ~grd[1].force_refresh
    /\ grd[1].current_time - prev[1].current_time = cache_expiry
    /\ grd[1].need_fetch = grd[1].symbols
    /\ grd[1].hits = {}

\* the step clears the whole cache
ClearsCache == data_cache' = EmptyMap /\ cache_time' = EmptyMap

\* C22: the quote and the fetch time of a code are written only by the store
\* loop of a call that fetched that code, and leave the cache only when
\* clear_cache empties it; every other step, a call whose fetch yields nothing
\* for the code included, leaves them as they are.
C22_EntryLifecycle ==
    [][/\ \A k \in DOMAIN data_cache \cup DOMAIN data_cache' :
             \/ k \in DOMAIN data_cache /\ k \in DOMAIN data_cache'
                /\ data_cache'[k] = data_cache[k]
             \/ k \in DOMAIN data_cache /\ k \notin DOMAIN data_cache' /\ ClearsCache
             \/ k \in DOMAIN data_cache'
                /\ \E c \in Callers :
                      WritesData(c, k) /\ k \in CleanCodes(grd[c].need_fetch)
       /\ \A k \in DOMAIN cache_time \cup DOMAIN cache_time' :
             \/ k \in DOMAIN cache_time /\ k \in DOMAIN cache_time'
                /\ cache_time'[k] = cache_time[k]
             \/ k \in DOMAIN cache_time /\ k \notin DOMAIN cache_time' /\ ClearsCache
             \/ k \in DOMAIN cache_time'
                /\ \E c \in Callers :
                      WritesTime(c, k) /\ k \in CleanCodes(grd[c].need_fetch)]_vars

\* C22 witness: a call that had to fetch a code and got nothing from the
\* providers has returned, and the entry of the code is still in the cache.
C22_Witness ==
    /\ grd[1].returned
    /\ ~grd[1].cleared
    /\ grd[1].need_fetch # <<>>
    /\ grd[1].ak_batches # <<>>
    /\ grd[1].fetched_data = <<>>
    /\ \E k \in CleanCodes(grd[1].need_fetch) :
          k \in DOMAIN data_cache /\ k \in DOMAIN cache_time

\* C23 as stated: every write of an entry sets its fetch time to the time of
\* the write.
C23_FetchTimeIsWriteTime ==
    [][\A c \in Callers : \A k \in Codes :
          WritesTime(c, k) => cache_time'[k] = now]_vars

\* both callers have returned from a call that fetched code k, and the cache
\* has not been cleared since
BothFetched(k) ==
    \A c \in Callers :
        /\ grd[c].returned
        /\ ~grd[c].cleared
        /\ k \in DictKeys(grd[c].fetched_data)

\* C24 as stated: once two concurrent calls that fetched the same code have both
\* returned, the quote and the fetch time of its entry are those written by one
\* of the two calls.
C24_EntryFromOneInvocation ==
    \A k \in Codes :
        BothFetched(k) =>
            \E c \in Callers :
                /\ k \in DOMAIN data_cache /\ data_cache[k] = grd[c].result[k]
                /\ k \in DOMAIN cache_time /\ cache_time[k] = grd[c].current_time

(***************************************************************************)
(* Properties of InitializationThread.run.                                 *)
(***************************************************************************)

\* C28 as stated: when the terminal process is running, connect() returned True
\* and no stop was requested, run() ends having emitted progress 100 and the
\* status "completed" last, and never the status "error", whatever the pool holds.
C28_SuccessReported ==
    (/\ init_thread.returned
     /\ init_thread.client_running
     /\ init_thread.connected
     /\ ~init_thread.stop_requested) =>
        /\ init_thread.progress = 100
        /\ init_thread.status = "completed"
        /\ "error" \notin init_thread.statuses

\* C29: run(), once started, returns, and when it returns on a path other than
\* that of the terminal process not running it has set initialization_completed.
C29_RunTerminates ==
    /\ [](init_thread.returned /\ init_thread.client_running
            => init_thread.initialization_completed)
    /\ (init_thread.pc # "idle") ~> init_thread.returned

\* C29 witness: run() has returned with initialization_completed set after the
\* wait for a gateway call timed out, with no stop requested.
C29_Witness ==
    /\ init_thread.returned
    /\ init_thread.initialization_completed
    /\ init_thread.gateway_hung
    /\ ~init_thread.stop_requested

====
